---- MODULE Spec2Model ----
(***************************************************************************)
(* chechekule: a periodic HTTP health probe.                               *)
(*                                                                         *)
(* The module models main and runCheck (src/main.go), the redirect hook    *)
(* runCheck installs on the HTTP client, the error classifier              *)
(* getErrorStatus, the assertion engine validateResponse, and of           *)
(* src/config.go LoadConfig, Config.SetupCookies and the log sink          *)
(* Config.WriteLog.  Spec is the process as a whole; SpecClassify,         *)
(* SpecValidate, SpecWriteLog, SpecCookies and SpecConfig call one         *)
(* function each on inputs drawn from bounded sets; SpecLive is runCheck   *)
(* as a loop without end, under the fairness of its select.                *)
(*                                                                         *)
(* Go strings are sequences of one-character strings, so that              *)
(* strings.Contains, strconv.Itoa and the url.Error wrapper are computed   *)
(* on text and not assumed.                                                *)
(***************************************************************************)
EXTENDS Integers, Sequences, FiniteSets, TLC

(***************************************************************************)
(* Bounds of the model.                                                    *)
(***************************************************************************)
\* ticks runCheck handles before the model stops delivering timer fires
MaxTicks == 2
\* largest finite redirect chain a target serves
MaxChain == 2
\* largest FollowRedirects.MaxCount drawn
MaxHopBudget == 2
\* fragments concatenated into an error message handed to getErrorStatus
MaxFragments == 3
MaxDuration == 2
MaxLines == 2
MaxCalls == 3
MaxCookies == 2
MaxCookieLines == 2

(***************************************************************************)
(* Text.                                                                   *)
(***************************************************************************)
NoSuchHostText == <<"n", "o", " ", "s", "u", "c", "h", " ", "h", "o", "s", "t">>
ConnectionRefusedText == <<"c", "o", "n", "n", "e", "c", "t", "i", "o", "n", " ", "r", "e", "f", "u", "s", "e", "d">>
TimeoutText == <<"t", "i", "m", "e", "o", "u", "t">>
DeadlineExceededText == <<"d", "e", "a", "d", "l", "i", "n", "e", " ", "e", "x", "c", "e", "e", "d", "e", "d">>
StoppedAfterText == <<"s", "t", "o", "p", "p", "e", "d", " ", "a", "f", "t", "e", "r">>
RedirectsText == <<"r", "e", "d", "i", "r", "e", "c", "t", "s">>

\* strings.Contains(s, sub)
Contains(s, sub) ==
    \E i \in 1..(Len(s) - Len(sub) + 1) : SubSeq(s, i, i + Len(sub) - 1) = sub

Digit(d) == <<"0", "1", "2", "3", "4", "5", "6", "7", "8", "9">>[d + 1]

RECURSIVE ItoaNat(_)
ItoaNat(n) == IF n < 10 THEN <<Digit(n)>> ELSE ItoaNat(n \div 10) \o <<Digit(n % 10)>>

\* strconv.Itoa(n)
Itoa(n) == IF n < 0 THEN <<"-">> \o ItoaNat(-n) ELSE ItoaNat(n)

(***************************************************************************)
(* Result codes (src/main.go:24-41).                                       *)
(***************************************************************************)
StatusDNSLookupFailed == -1
StatusConnectionFailed == -2
StatusTimeout == -3
StatusRedirectLoop == -4
StatusAssertFailed == -5
StatusUnknown == -999

Sentinels ==
    {StatusDNSLookupFailed, StatusConnectionFailed, StatusTimeout,
     StatusRedirectLoop, StatusAssertFailed, StatusUnknown}

\* a map without the entry of StatusUnknown
errorMessagesNoUnknown(code) ==
    CASE code = StatusDNSLookupFailed ->
            <<"D", "N", "S", "_", "L", "O", "O", "K", "U", "P", "_", "F", "A", "I", "L", "E", "D">>
      [] code = StatusConnectionFailed ->
            <<"C", "O", "N", "N", "E", "C", "T", "I", "O", "N", "_", "F", "A", "I", "L", "E", "D">>
      [] code = StatusTimeout ->
            <<"T", "I", "M", "E", "O", "U", "T">>
      [] code = StatusRedirectLoop ->
            <<"R", "E", "D", "I", "R", "E", "C", "T", "_", "L", "O", "O", "P", "_", "D", "E", "T", "E", "C", "T", "E", "D">>
      [] code = StatusAssertFailed ->
            <<"A", "S", "S", "E", "R", "T", "_", "F", "A", "I", "L", "E", "D">>
      [] OTHER -> <<>>

\* errorMessages[code]; a missing key reads as Go's zero value, the empty string
errorMessages(code) ==
    CASE code = StatusDNSLookupFailed ->
            <<"D", "N", "S", "_", "L", "O", "O", "K", "U", "P", "_", "F", "A", "I", "L", "E", "D">>
      [] code = StatusConnectionFailed ->
            <<"C", "O", "N", "N", "E", "C", "T", "I", "O", "N", "_", "F", "A", "I", "L", "E", "D">>
      [] code = StatusTimeout ->
            <<"T", "I", "M", "E", "O", "U", "T">>
      [] code = StatusRedirectLoop ->
            <<"R", "E", "D", "I", "R", "E", "C", "T", "_", "L", "O", "O", "P", "_", "D", "E", "T", "E", "C", "T", "E", "D">>
      [] code = StatusAssertFailed ->
            <<"A", "S", "S", "E", "R", "T", "_", "F", "A", "I", "L", "E", "D">>
      [] code = StatusUnknown ->
            <<"U", "N", "K", "N", "O", "W", "N", "_", "E", "R", "R", "O", "R">>
      [] OTHER -> <<>>

(***************************************************************************)
(* getErrorStatus (src/main.go:84-102).  An error is NilErr or the text of  *)
(* its message; the error with the empty message is not nil.               *)
(***************************************************************************)
\* a nil error
NilErr == <<"<nil>">>
\* nil of the values the model names by a string
Nil == "nil"

\* a classifier that looks for a timeout before it looks for anything else
getErrorStatusTimeoutFirst(err) ==
    IF err = NilErr THEN 0
    ELSE IF Contains(err, TimeoutText) \/ Contains(err, DeadlineExceededText) THEN StatusTimeout
    ELSE IF Contains(err, NoSuchHostText) THEN StatusDNSLookupFailed
    ELSE IF Contains(err, ConnectionRefusedText) THEN StatusConnectionFailed
    ELSE IF Contains(err, StoppedAfterText) /\ Contains(err, RedirectsText) THEN StatusRedirectLoop
    ELSE StatusUnknown

\* a classifier whose default branch reports success
getErrorStatusDefaultZero(err) ==
    IF err = NilErr THEN 0
    ELSE IF Contains(err, NoSuchHostText) THEN StatusDNSLookupFailed
    ELSE IF Contains(err, ConnectionRefusedText) THEN StatusConnectionFailed
    ELSE IF Contains(err, TimeoutText) \/ Contains(err, DeadlineExceededText) THEN StatusTimeout
    ELSE IF Contains(err, StoppedAfterText) /\ Contains(err, RedirectsText) THEN StatusRedirectLoop
    ELSE 0

getErrorStatus(err) ==
    IF err = NilErr THEN 0
    ELSE IF Contains(err, NoSuchHostText) THEN StatusDNSLookupFailed
    ELSE IF Contains(err, ConnectionRefusedText) THEN StatusConnectionFailed
    ELSE IF Contains(err, TimeoutText) \/ Contains(err, DeadlineExceededText) THEN StatusTimeout
    ELSE IF Contains(err, StoppedAfterText) /\ Contains(err, RedirectsText) THEN StatusRedirectLoop
    ELSE StatusUnknown

(***************************************************************************)
(* regexp.Compile and Regexp.MatchString, for the pattern language the     *)
(* model draws patterns from: literal characters, ".", a leading "^" and a *)
(* trailing "$".  A pattern with an unclosed "(" or "[" does not compile.  *)
(***************************************************************************)
RECURSIVE Count(_, _)
Count(s, c) ==
    IF s = <<>> THEN 0 ELSE (IF Head(s) = c THEN 1 ELSE 0) + Count(Tail(s), c)

\* regexp.Compile(p) returns no error
CompileOk(p) ==
    /\ Count(p, "(") = Count(p, ")")
    /\ Count(p, "[") = Count(p, "]")

AnchoredStart(p) == Len(p) > 0 /\ p[1] = "^"
AnchoredEnd(p) == Len(p) > 0 /\ p[Len(p)] = "$"

PatternCore(p) ==
    LET a == IF AnchoredStart(p) THEN 2 ELSE 1
        b == IF AnchoredEnd(p) THEN Len(p) - 1 ELSE Len(p)
    IN  IF a > b THEN <<>> ELSE SubSeq(p, a, b)

\* re.MatchString(s): the pattern matches somewhere in s
MatchString(p, s) ==
    LET core == PatternCore(p)
        n == Len(core)
    IN  \E i \in 1..(Len(s) - n + 1) :
            /\ AnchoredStart(p) => i = 1
            /\ AnchoredEnd(p) => i + n - 1 = Len(s)
            /\ \A k \in 1..n : core[k] = "." \/ core[k] = s[i + k - 1]

(***************************************************************************)
(* validateResponse (src/main.go:104-141).  Returns Nil or the failure.    *)
(***************************************************************************)
\* a validation that does not look at the body
validateResponseNoBody(asserts, status, body) ==
    IF asserts.Values # {} /\ status \notin asserts.Values
        THEN "status code not in expected values"
    ELSE IF asserts.StatusRegex # <<>> /\ ~CompileOk(asserts.StatusRegex)
        THEN "invalid status code regex"
    ELSE IF asserts.StatusRegex # <<>> /\ ~MatchString(asserts.StatusRegex, Itoa(status))
        THEN "status code does not match regex"
    ELSE Nil

\* a validation that reports a pattern that does not compile as a mismatch
validateResponseMustCompile(asserts, status, body) ==
    IF asserts.Values # {} /\ status \notin asserts.Values
        THEN "status code not in expected values"
    ELSE IF asserts.StatusRegex # <<>>
            /\ ~(CompileOk(asserts.StatusRegex)
                  /\ MatchString(asserts.StatusRegex, Itoa(status)))
        THEN "status code does not match regex"
    ELSE IF asserts.BodyRegex # <<>>
            /\ ~(CompileOk(asserts.BodyRegex) /\ MatchString(asserts.BodyRegex, body))
        THEN "body does not match regex"
    ELSE Nil

validateResponse(asserts, status, body) ==
    IF asserts.Values # {} /\ status \notin asserts.Values
        THEN "status code not in expected values"
    ELSE IF asserts.StatusRegex # <<>> /\ ~CompileOk(asserts.StatusRegex)
        THEN "invalid status code regex"
    ELSE IF asserts.StatusRegex # <<>> /\ ~MatchString(asserts.StatusRegex, Itoa(status))
        THEN "status code does not match regex"
    ELSE IF asserts.BodyRegex # <<>> /\ ~CompileOk(asserts.BodyRegex)
        THEN "invalid body regex"
    ELSE IF asserts.BodyRegex # <<>> /\ ~MatchString(asserts.BodyRegex, body)
        THEN "body does not match regex"
    ELSE Nil

(***************************************************************************)
(* Inputs of a run.                                                        *)
(***************************************************************************)
PlainURL == <<"h", "t", "t", "p", ":", "/", "/", "a", "/">>
TimeoutPathURL == <<"h", "t", "t", "p", ":", "/", "/", "a", "/", "t", "i", "m", "e", "o", "u", "t">>
\* url.Parse rejects it: missing protocol scheme
SchemelessURL == <<":", "a">>

\* url.Parse(u) returns no error (a URL that starts with a colon has no scheme)
UrlParses(u) == ~(Len(u) > 0 /\ u[1] = ":")

\* no url key in the configuration file
EmptyURL == <<>>

ConfigURLs == {PlainURL, SchemelessURL}
\* Location headers a redirecting target sends
LocationURLs == {PlainURL, TimeoutPathURL}

NoAsserts == [Values |-> {}, StatusRegex |-> <<>>, BodyRegex |-> <<>>]
AssertConfigs ==
    { NoAsserts,
      [Values |-> {200}, StatusRegex |-> <<>>, BodyRegex |-> <<>>],
      [Values |-> {}, StatusRegex |-> <<"^", "2">>, BodyRegex |-> <<>>],
      [Values |-> {}, StatusRegex |-> <<>>, BodyRegex |-> <<"o", "k">>] }
\* the assertions LoadConfig starts from, and a pattern that does not compile
DefaultAsserts == [Values |-> {200}, StatusRegex |-> <<>>, BodyRegex |-> <<>>]
MalformedAsserts == [Values |-> {}, StatusRegex |-> <<"[">>, BodyRegex |-> <<>>]

\* http.StatusFound, the status of a redirect response
StatusFound == 302
TerminalStatuses == {200, 404}
Bodies == {<<"o", "k">>, <<"n", "g">>}

\* the redirect chain of the target: the number of redirect responses before
\* a terminal one
Chains == 0..MaxChain

\* messages of the errors the transport returns
NetErrors ==
    { <<"l", "o", "o", "k", "u", "p", " ", "a", ":", " ", "n", "o", " ", "s", "u", "c", "h", " ", "h", "o", "s", "t">>,
      <<"c", "o", "n", "n", "e", "c", "t", ":", " ", "c", "o", "n", "n", "e", "c", "t", "i", "o", "n", " ", "r", "e", "f", "u", "s", "e", "d">>,
      <<"c", "o", "n", "t", "e", "x", "t", " ", "d", "e", "a", "d", "l", "i", "n", "e", " ", "e", "x", "c", "e", "e", "d", "e", "d">>,
      <<"E", "O", "F">> }

\* config.Hooks.OnStart: none, or the path of a command
HookConfigs == {Nil, "./hook.sh"}

\* config.CookieFile: none, a file that opens, a file that does not
MissingFile == "missing.txt"
CookieFiles == {Nil, "cookies.txt", MissingFile}
\* os.Open(path) returns no error
FileOpens(path) == path # MissingFile

\* log sinks: none, or a line template
GoodFormat == "{{.statusCode}}"
MissingKeyFormat == "{{.nope}}"
LogConfigs == {Nil, GoodFormat, MissingKeyFormat}
\* the template of the README, and one whose action is not closed
FullFormat == "{{.requestedAt}}\\t{{.statusCode}}\\t{{.duration}}"
UnclosedFormat == "{{.statusCode"
LogFormats == {GoodFormat, FullFormat, MissingKeyFormat, UnclosedFormat}

\* template.Parse(format) returns no error
TemplateParses(format) == format # UnclosedFormat
\* the keys the actions of the template look up
TemplateKeys(format) ==
    CASE format = GoodFormat -> {"statusCode"}
      [] format = FullFormat -> {"requestedAt", "statusCode", "duration"}
      [] format = MissingKeyFormat -> {"nope"}
      [] OTHER -> {}
\* the keys of the map WriteLog executes the line template on
LogData == {"requestedAt", "statusCode", "duration"}
\* what os.OpenFile and Fprintln do in one call of WriteLog
LogIO == {"ok", "open fails", "write fails"}
\* the elapsed times a probe can take, in ticks of the clock
Durations == 1..MaxDuration
\* the connect and read timeouts of a configuration whose requests end in
\* one of these times
TimeoutPairs ==
    { p \in (0..MaxDuration) \X (0..MaxDuration) : p[1] + p[2] \in Durations }
\* the error of a request whose context reached its deadline
DeadlineExceeded == <<"c", "o", "n", "t", "e", "x", "t", " ", "d", "e", "a", "d", "l", "i", "n", "e", " ", "e", "x", "c", "e", "e", "d", "e", "d">>

\* (&url.Error{Op: "Get", URL: u, Err: e}).Error(), as http.Client.Do wraps errors
UrlError(u, e) == <<"G", "e", "t", " ", "\"">> \o u \o <<"\"", ":", " ">> \o e

\* fmt.Errorf("stopped after %d redirects", max)
StoppedAfter(max) == StoppedAfterText \o <<" ">> \o Itoa(max) \o <<" ">> \o RedirectsText

(***************************************************************************)
(* State.                                                                  *)
(***************************************************************************)
VARIABLES
    \* the configuration handed to runCheck, fixed for the run
    cfgURL,         \* config.URL
    cfgEnabled,     \* config.FollowRedirects.Enabled
    cfgMaxCount,    \* config.FollowRedirects.MaxCount
    cfgAsserts,     \* config.Asserts
    cfgLog,         \* config.Log: Nil or the line template
    cfgDone,        \* whether the done channel handed to runCheck is non-nil
    cfgHook,        \* config.Hooks.OnStart
    cfgCookieFile,  \* config.CookieFile
    entry,          \* how the process was entered: "file" (main with -c), "arg" (main
                    \* with a bare URL) or "runCheck" (a caller of runCheck)
    cfgConnect,     \* config.Timeout.Connect, in ticks of the clock
    cfgRead,        \* config.Timeout.Read
    \* the target
    targetSlow,     \* it sleeps longer than any deadline before it answers
    chain,          \* its redirect chain, when it ends
    cyclic,         \* its servers redirect forever
    \* runCheck
    pc,             \* "main", "exited", "start", "cookies", "select", "do", "readbody",
                    \* "returned"
    hookRuns,       \* runs of the on-start hook
    hookFailed,     \* cmd.Run of the hook returned an error
    ret,            \* the value runCheck returned
    tickPending,    \* ticker.C holds a tick (a channel of capacity one)
    donePending,    \* a sender is blocked in done <- true
    doneObserved,   \* runCheck received from done
    cancelAt,       \* where runCheck stood when the sender began to send
    ticksStarted,   \* tick bodies entered
    inflight,       \* requests handed to the transport and not yet answered
    via,            \* requests the probe has issued: len(via) at the hook's next call
    lastRedirect,   \* what the redirect hook last decided in this probe
    lastLoc,        \* Location of the hop the hook refused
    respStatus,     \* resp.StatusCode of the response client.Do returned
    requestedAt,    \* requestedAt of the tick body: the tick's number stands for the time
    duration,       \* time.Since(start) taken when client.Do returned
    outcome,        \* how the last tick body ended
    statusCode,     \* statusCode of the tick body (var statusCode int, line 202)
    stdoutText,     \* second field of the line the tick body printed
    printed,        \* lines on standard output
    logCalls,       \* calls of config.WriteLog
    logLines,       \* lines appended to the log file
    logFailed,      \* WriteLog returned an error to the tick body
    stdoutAt,       \* first field of the line the tick body printed
    stdoutDur,      \* third field of the line the tick body printed
    logArgs,        \* <<>>, or the arguments the tick body called config.WriteLog with
    logExists,      \* the log file exists
    logFailures,    \* calls of config.WriteLog that returned an error
    diags,          \* what the last tick body wrote to standard error
    \* the classifier called on its own
    errIn,          \* the error handed to getErrorStatus
    classified,     \* <<>> before the call, <<result>> after it
    \* validateResponse called on its own
    vAsserts,       \* config.Asserts
    vStatus,        \* resp.StatusCode
    vBody,          \* the body read from the response
    vOut,           \* <<>> before the call, <<result>> after it
    \* Config.WriteLog called on its own
    wlFormat,       \* c.Log: Nil or the line template
    wlFile,         \* the log file: whether it exists, and its lines
    wlBefore,       \* the log file before the last call
    wlErr,          \* <<>> before the first call, <<result>> of the last call after it
    wlCalls,        \* calls made
    wlPath,         \* c.Log.Path
    wlStart,        \* c.startTime, in seconds
    wlNow,          \* the clock
    wlWrites,       \* the lines appended to files: the path and the tick of each
    \* Config.SetupCookies called on its own
    ckCookies,      \* c.Cookies
    ckLines,        \* the lines of the file c.CookieFile names
    ckLoaded,       \* what loadCookiesFromFile returned
    ckJar,          \* <<>> before the call, <<the jar's name-value map>> after it
    \* the configuration main builds
    cfYaml,         \* the keys the configuration file sets
    cfArg,          \* the URL argument of a run without -c
    cfOut,          \* <<>> before, <<the Config handed to runCheck, or the error>> after
    cfVerdict       \* <<>>, or <<a status and what validateResponse made of it>>

cfgVars ==
    <<cfgURL, cfgEnabled, cfgMaxCount, cfgAsserts, cfgLog, cfgDone, cfgHook, cfgCookieFile,
      cfgConnect, cfgRead, entry, targetSlow, chain, cyclic>>
chanVars == <<tickPending, donePending, doneObserved, cancelAt>>
probeVars == <<inflight, via, lastRedirect, lastLoc, respStatus, requestedAt, duration>>
lineVars == <<statusCode, stdoutText, stdoutAt, stdoutDur, printed>>
logVars == <<logCalls, logLines, logFailed, logArgs, logExists, logFailures>>
sinkVars == <<outcome, diags, lineVars, logVars>>
classifyVars == <<errIn, classified>>
validateVars == <<vAsserts, vStatus, vBody, vOut>>
writeLogVars == <<wlFormat, wlFile, wlBefore, wlErr, wlCalls, wlPath, wlStart, wlNow, wlWrites>>
cookieVars == <<ckCookies, ckLines, ckLoaded, ckJar>>
configVars == <<cfYaml, cfArg, cfOut, cfVerdict>>
unitVars == <<classifyVars, validateVars, writeLogVars, cookieVars, configVars>>

\* a key of the configuration file that is not set, and a file that sets none
Absent == <<>>
EmptyYaml ==
    [url |-> Absent, interval |-> Absent, connect |-> Absent, read |-> Absent,
     enabled |-> Absent, max_count |-> Absent, values |-> Absent, regex |-> Absent,
     cookies |-> Absent, cookie_file |-> Absent, log |-> Absent]
NoFile == [exists |-> FALSE, lines |-> 0]

\* the functions that are called on their own have not been called
IdleClassify == errIn = NilErr /\ classified = <<>>
IdleValidate == vAsserts = NoAsserts /\ vStatus = 0 /\ vBody = <<>> /\ vOut = <<>>
IdleWriteLog ==
    /\ wlFormat = Nil /\ wlFile = NoFile /\ wlBefore = NoFile /\ wlErr = <<>> /\ wlCalls = 0
    /\ wlPath = Nil /\ wlStart = 0 /\ wlNow = 0 /\ wlWrites = <<>>
IdleCookies == ckCookies = <<>> /\ ckLines = <<>> /\ ckLoaded = <<>> /\ ckJar = <<>>
IdleConfig == cfYaml = EmptyYaml /\ cfArg = <<>> /\ cfOut = <<>> /\ cfVerdict = <<>>
hookVars == <<hookRuns, hookFailed>>
vars == <<cfgVars, pc, ret, hookVars, chanVars, ticksStarted, probeVars, sinkVars, unitVars>>

\* a caller of runCheck hands it any configuration and a done channel or nil
InitRunCheck ==
    /\ entry = "runCheck"
    /\ pc = "start"
    /\ cfgURL \in ConfigURLs
    /\ cfgEnabled \in BOOLEAN
    /\ cfgMaxCount \in 0..MaxHopBudget
    /\ cfgAsserts \in AssertConfigs
    \* the log sink is varied under one redirect policy, which it does not read
    /\ cfgLog \in (IF cfgEnabled /\ cfgMaxCount = MaxHopBudget THEN LogConfigs ELSE {Nil})
    /\ cfgDone \in BOOLEAN
    /\ targetSlow = FALSE
    /\ cfgConnect = 1
    /\ cfgRead = MaxDuration - 1

\* main with -c: the configuration LoadConfig reads and runCheck(config, nil)
InitFile ==
    /\ entry = "file"
    /\ pc = "main"
    /\ cfgURL \in {PlainURL, EmptyURL}
    /\ cfgEnabled = TRUE
    /\ cfgMaxCount = MaxHopBudget
    /\ cfgAsserts \in {DefaultAsserts, MalformedAsserts}
    /\ cfgLog \in {Nil, GoodFormat, UnclosedFormat}
    /\ cfgDone = FALSE
    /\ targetSlow = FALSE
    /\ cfgConnect = 1
    /\ cfgRead = MaxDuration - 1

\* main with a bare URL (src/main.go:68-75) and runCheck(config, nil)
InitArg ==
    /\ entry = "arg"
    /\ pc = "main"
    /\ cfgURL = PlainURL
    /\ cfgEnabled = FALSE
    /\ cfgMaxCount = 0
    /\ cfgAsserts = NoAsserts
    /\ cfgLog = Nil
    /\ cfgDone = FALSE
    /\ targetSlow = FALSE
    /\ cfgConnect = 1
    /\ cfgRead = MaxDuration - 1

\* a caller of runCheck and a target that does not answer in time, as in
\* TestTimeout
InitSlowTarget ==
    /\ entry = "runCheck"
    /\ pc = "start"
    /\ targetSlow = TRUE
    /\ cfgURL \in {PlainURL, TimeoutPathURL}
    /\ cfgEnabled = TRUE
    /\ cfgMaxCount = MaxHopBudget
    /\ cfgAsserts \in {NoAsserts, DefaultAsserts}
    /\ cfgLog \in {Nil, GoodFormat}
    /\ cfgDone \in BOOLEAN
    /\ \E p \in TimeoutPairs : cfgConnect = p[1] /\ cfgRead = p[2]

Init ==
    /\ InitRunCheck \/ InitFile \/ InitArg \/ InitSlowTarget
    \* the hook and the cookie file are varied under the plainest assertions
    \* and without a log sink, neither of which they touch
    /\ cfgHook \in (IF entry = "runCheck" /\ cfgAsserts = NoAsserts /\ cfgLog = Nil
                           /\ ~targetSlow
                        THEN HookConfigs ELSE {Nil})
    /\ cfgCookieFile \in (IF entry = "runCheck" /\ cfgAsserts = NoAsserts /\ cfgLog = Nil
                                 /\ ~targetSlow
                              THEN CookieFiles ELSE {Nil})
    /\ cyclic \in (IF targetSlow THEN {FALSE} ELSE BOOLEAN)
    /\ chain \in (IF cyclic \/ targetSlow THEN {0} ELSE Chains)
    /\ ret = "running"
    /\ hookRuns = 0
    /\ hookFailed = FALSE
    /\ tickPending = FALSE
    /\ donePending = FALSE
    /\ doneObserved = FALSE
    /\ cancelAt = "never"
    /\ ticksStarted = 0
    /\ inflight = 0
    /\ via = 0
    /\ lastRedirect = "none"
    /\ lastLoc = <<>>
    /\ respStatus = 0
    /\ requestedAt = 0
    /\ duration = 0
    /\ outcome = "none"
    /\ statusCode = 0
    /\ stdoutText = <<>>
    /\ printed = 0
    /\ logCalls = 0
    /\ logLines = 0
    /\ logFailed = FALSE
    /\ stdoutAt = 0
    /\ stdoutDur = 0
    /\ logArgs = <<>>
    /\ logExists = FALSE
    /\ logFailures = 0
    /\ diags = {}
    /\ errIn = NilErr
    /\ classified = <<>>
    /\ vAsserts = NoAsserts
    /\ vStatus = 0
    /\ vBody = <<>>
    /\ vOut = <<>>
    /\ IdleWriteLog /\ IdleCookies /\ IdleConfig

(***************************************************************************)
(* The redirect hook, http.Client.CheckRedirect (src/main.go:162-170).     *)
(* viaLen is len(via): the requests the probe has issued so far, the       *)
(* original request included, so it is 1 at the first redirect.            *)
(***************************************************************************)
\* a hook that compares with > and so follows one hop more
CheckRedirectGt(viaLen) ==
    IF ~cfgEnabled THEN "useLast"
    ELSE IF viaLen > cfgMaxCount THEN "stopped"
    ELSE "follow"

\* a hook that hands back the last response when the budget is exhausted
CheckRedirectQuiet(viaLen) ==
    IF ~cfgEnabled THEN "useLast"
    ELSE IF viaLen >= cfgMaxCount THEN "useLast"
    ELSE "follow"

\* a hook that does not read the Enabled flag
CheckRedirectAlways(viaLen) ==
    IF viaLen >= cfgMaxCount THEN "stopped" ELSE "follow"

CheckRedirect(viaLen) ==
    IF ~cfgEnabled THEN "useLast"                       \* http.ErrUseLastResponse
    ELSE IF viaLen >= cfgMaxCount THEN "stopped"        \* "stopped after %d redirects"
    ELSE "follow"                                       \* nil

\* the target answers the probe's next request with a redirect
RedirectAvailable == cyclic \/ via - 1 < chain

(***************************************************************************)
(* Config.WriteLog (src/config.go:160-211) on a log file that exists or    *)
(* not and holds a number of lines: the error, Nil for none, and the file  *)
(* afterwards.  The path template is well formed.                          *)
(***************************************************************************)
\* a WriteLog that opens the file before it renders the line
WriteLogOpensFirst(format, file, io) ==
    IF format = Nil THEN [err |-> Nil, file |-> file]
    ELSE IF io = "open fails"
        THEN [err |-> "failed to open log file", file |-> file]
    ELSE IF ~TemplateParses(format)
        THEN [err |-> "failed to parse format template",
              file |-> [exists |-> TRUE, lines |-> file.lines]]
    ELSE IF ~(TemplateKeys(format) \subseteq LogData)
        THEN [err |-> "failed to execute format template",
              file |-> [exists |-> TRUE, lines |-> file.lines]]
    ELSE IF io = "write fails"
        THEN [err |-> "failed to write log", file |-> [exists |-> TRUE, lines |-> file.lines]]
    ELSE [err |-> Nil, file |-> [exists |-> TRUE, lines |-> file.lines + 1]]

\* the log path templates: the one of TestWriteLog, without a token, and the
\* one of TestLoadConfig
PlainPath == "test.log"
TokenPath == "/tmp/log{{.ymdhms}}.txt"
LogPaths == {PlainPath, TokenPath}

\* the start time of a Config that LoadConfig did not build: the zero Time
ZeroTime == -1

Pad2(n) == IF n < 10 THEN <<"0">> \o ItoaNat(n) ELSE ItoaNat(n)

\* Time.Format("20060102150405") of the zero Time, or of a second of one minute
Ymdhms(time) ==
    IF time = ZeroTime THEN <<"0", "0", "0", "1", "0", "1", "0", "1", "0", "0", "0", "0", "0", "0">>
    ELSE <<"2", "0", "2", "6", "1", "1", "0", "1", "1", "2", "0", "0">> \o Pad2(time)

\* a path rendered with the time of the write
LogPathNow(path, start, now) ==
    IF path = TokenPath THEN <<"/", "t", "m", "p", "/", "l", "o", "g">> \o Ymdhms(now) \o <<".", "t", "x", "t">>
    ELSE <<"t", "e", "s", "t", ".", "l", "o", "g">>

\* lines 166-177: the path template executed on "ymdhms", the start time
LogPath(path, start, now) ==
    IF path = TokenPath THEN <<"/", "t", "m", "p", "/", "l", "o", "g">> \o Ymdhms(start) \o <<".", "t", "x", "t">>
    ELSE <<"t", "e", "s", "t", ".", "l", "o", "g">>

WriteLog(format, file, io) ==
    IF format = Nil THEN [err |-> Nil, file |-> file]
    ELSE IF ~TemplateParses(format)
        THEN [err |-> "failed to parse format template", file |-> file]
    \* missingkey=error: a key that is not in the map fails Execute
    ELSE IF ~(TemplateKeys(format) \subseteq LogData)
        THEN [err |-> "failed to execute format template", file |-> file]
    \* os.OpenFile with O_APPEND|O_CREATE|O_WRONLY
    ELSE IF io = "open fails"
        THEN [err |-> "failed to open log file", file |-> file]
    ELSE IF io = "write fails"
        THEN [err |-> "failed to write log", file |-> [exists |-> TRUE, lines |-> file.lines]]
    ELSE [err |-> Nil, file |-> [exists |-> TRUE, lines |-> file.lines + 1]]

(***************************************************************************)
(* The select statement of runCheck (src/main.go:180-184).                 *)
(***************************************************************************)
\* a loop that also receives while a request is outstanding
AtLoopTopOrInDo == pc \in {"select", "do"}

AtLoopTop == pc = "select"

\* a select with a default branch: a tick body without a tick
TickReadyAlways == AtLoopTop

\* a loop that probes once at once and then on every tick
TickReadyAtStart == AtLoopTop /\ (tickPending \/ ticksStarted = 0)

TickReady == AtLoopTop /\ tickPending

\* a receive that succeeds with no sender, as on a closed channel
DoneReadyNoSender == AtLoopTop /\ cfgDone

\* a receive from a nil channel that succeeds
DoneReadyNilChannel == AtLoopTop /\ donePending

\* a receive that interrupts the tick body
DoneReadyAnywhere == pc \in {"select", "do", "readbody"} /\ cfgDone /\ donePending

DoneReady == AtLoopTop /\ cfgDone /\ donePending

\* the ticker exists: runCheck passed line 177
TickerStarted == pc \in {"select", "do", "readbody"} \/ (pc = "returned" /\ ret = Nil)
InTickBody == pc \in {"do", "readbody"}

(***************************************************************************)
(* runCheck (src/main.go:143-237).                                         *)
(***************************************************************************)
\* a log sink that is handed only the ticks that got a response
LogResultSkipsFailures(code, dur, errs) ==
    IF cfgLog # Nil /\ code >= 0
       THEN \E io \in LogIO :
               LET r == WriteLog(cfgLog, [exists |-> logExists, lines |-> logLines], io)
               IN  /\ logCalls' = logCalls + 1
                   /\ logArgs' = <<requestedAt, code, dur>>
                   /\ logFailed' = (r.err # Nil)
                   /\ logFailures' = IF r.err # Nil THEN logFailures + 1 ELSE logFailures
                   /\ logExists' = r.file.exists
                   /\ logLines' = r.file.lines
                   /\ diags' = IF r.err # Nil THEN errs \cup {"Failed to write log"} ELSE errs
       ELSE /\ diags' = errs
            /\ UNCHANGED logVars

\* a log sink that is given up after its first failure
LogResultGivesUp(code, dur, errs) ==
    IF cfgLog # Nil /\ logFailures = 0
       THEN \E io \in LogIO :
               LET r == WriteLog(cfgLog, [exists |-> logExists, lines |-> logLines], io)
               IN  /\ logCalls' = logCalls + 1
                   /\ logArgs' = <<requestedAt, code, dur>>
                   /\ logFailed' = (r.err # Nil)
                   /\ logFailures' = IF r.err # Nil THEN logFailures + 1 ELSE logFailures
                   /\ logExists' = r.file.exists
                   /\ logLines' = r.file.lines
                   /\ diags' = IF r.err # Nil THEN errs \cup {"Failed to write log"} ELSE errs
       ELSE /\ diags' = errs
            /\ UNCHANGED logVars

\* lines 230-234: the log sink, called with the tick's requestedAt, statusCode
\* and duration; errs is what the tick body wrote to standard error before
LogResult(code, dur, errs) ==
    IF cfgLog # Nil
       THEN \E io \in LogIO :
               LET r == WriteLog(cfgLog, [exists |-> logExists, lines |-> logLines], io)
               IN  /\ logCalls' = logCalls + 1
                   /\ logArgs' = <<requestedAt, code, dur>>
                   /\ logFailed' = (r.err # Nil)
                   /\ logFailures' = IF r.err # Nil THEN logFailures + 1 ELSE logFailures
                   /\ logExists' = r.file.exists
                   /\ logLines' = r.file.lines
                   /\ diags' = IF r.err # Nil THEN errs \cup {"Failed to write log"} ELSE errs
       ELSE /\ diags' = errs
            /\ UNCHANGED logVars

\* lines 202-234 after the outcome is known: the line on standard output,
\* then the log sink
Emit(code, text, dur, how, errs) ==
    /\ outcome' = how
    /\ statusCode' = code
    /\ stdoutText' = text
    /\ stdoutAt' = requestedAt
    /\ stdoutDur' = dur
    /\ printed' = printed + 1
    /\ LogResult(code, dur, errs)

\* lines 204-206: client.Do returned err
EmitFailure(err, dur, how) ==
    LET code == getErrorStatus(err)
    IN  Emit(code, errorMessages(code), dur, how, {})

\* a body-read failure that still prints a line
AbortTickPrints ==
    /\ outcome' = "bodyread"
    /\ diags' = {"Failed to read response body"}
    /\ printed' = printed + 1
    /\ UNCHANGED <<statusCode, stdoutText, stdoutAt, stdoutDur, logVars>>

\* lines 210-213: Failed to read response body, continue
AbortTick ==
    /\ outcome' = "bodyread"
    /\ diags' = {"Failed to read response body"}
    /\ UNCHANGED <<lineVars, logVars>>

\* a LoadConfig that does not look at the URL
LoadConfigCheckNothing == Nil

\* LoadConfig (src/config.go:92-94): Nil, or the error it returns
LoadConfigCheck == IF cfgURL = EmptyURL THEN "url is required" ELSE Nil

\* a cookie setup that goes on without the cookie file it cannot open
SetupCookiesIgnoresFile ==
    IF ~UrlParses(cfgURL) THEN "url.Parse failed" ELSE Nil

\* Config.SetupCookies (src/config.go:99-129): Nil, or the error it returns
SetupCookies ==
    IF ~UrlParses(cfgURL) THEN "url.Parse failed"
    ELSE IF cfgCookieFile # Nil /\ ~FileOpens(cfgCookieFile) THEN "os.Open failed"
    ELSE Nil

\* main (src/main.go:43-82) up to the call of runCheck
Main ==
    /\ pc = "main"
    /\ IF entry = "file" /\ LoadConfigCheck # Nil
          THEN pc' = "exited" /\ ret' = "Failed to load config"
          ELSE pc' = "start" /\ ret' = ret
    /\ UNCHANGED <<cfgVars, hookVars, chanVars, ticksStarted, probeVars, sinkVars, unitVars>>

\* a runCheck that has no hook to run
HookConfiguredNever == FALSE

\* line 145: config.Hooks.OnStart != ""
HookConfigured == cfgHook # Nil

\* lines 144-150: the on-start hook; an error of cmd.Run is written to
\* standard error as "Failed to execute hook" (hookFailed) and dropped
OnStart ==
    /\ pc = "start"
    /\ pc' = "cookies"
    /\ IF HookConfigured
          THEN /\ hookRuns' = hookRuns + 1
               /\ \E ran \in BOOLEAN : hookFailed' = ~ran
          ELSE UNCHANGED hookVars
    /\ UNCHANGED <<cfgVars, ret, chanVars, ticksStarted, probeVars, sinkVars, unitVars>>

\* lines 152-178: the cookie jar, client, SetupCookies, ticker
Setup ==
    /\ pc = "cookies"
    /\ IF SetupCookies = Nil
          THEN pc' = "select" /\ ret' = ret
          ELSE pc' = "returned" /\ ret' = "failed to setup cookies"
    /\ UNCHANGED <<cfgVars, hookVars, chanVars, ticksStarted, probeVars, sinkVars, unitVars>>

\* the runtime delivers a tick into ticker.C; a tick is dropped while one waits
TimerFire ==
    /\ TickerStarted
    /\ pc # "returned"
    /\ ~tickPending
    /\ ticksStarted < MaxTicks
    /\ tickPending' = TRUE
    /\ UNCHANGED <<cfgVars, hookVars, pc, ret, donePending, doneObserved, cancelAt, ticksStarted,
                   probeVars, sinkVars, unitVars>>

\* the caller starts to send on done (on a nil channel the send blocks forever)
Cancel ==
    /\ entry = "runCheck"
    /\ pc # "returned"
    /\ ~donePending
    /\ ~doneObserved
    /\ donePending' = TRUE
    /\ cancelAt' = pc
    /\ UNCHANGED <<cfgVars, hookVars, pc, ret, tickPending, doneObserved, ticksStarted,
                   probeVars, sinkVars, unitVars>>

\* lines 182-183: case <-done
SelectDone ==
    /\ DoneReady
    /\ pc' = "returned"
    /\ ret' = Nil
    /\ donePending' = FALSE
    /\ doneObserved' = TRUE
    /\ UNCHANGED <<cfgVars, hookVars, tickPending, cancelAt, ticksStarted, probeVars, sinkVars,
                   unitVars>>

\* lines 184-199: case <-ticker.C, http.NewRequest, client.Do is called
SelectTick ==
    /\ TickReady
    /\ tickPending' = FALSE
    /\ ticksStarted' = ticksStarted + 1
    /\ requestedAt' = ticksStarted + 1
    /\ IF UrlParses(cfgURL)
          THEN /\ pc' = "do"
               /\ inflight' = inflight + 1
               /\ via' = 1
               /\ lastRedirect' = "none"
               /\ lastLoc' = <<>>
               /\ respStatus' = 0
               /\ duration' = 0
               /\ outcome' = "pending"
               /\ diags' = {}
          ELSE \* lines 189-192: Failed to create request, continue
               /\ pc' = "select"
               /\ outcome' = "newrequest"
               /\ diags' = {"Failed to create request"}
               /\ UNCHANGED <<inflight, via, lastRedirect, lastLoc, respStatus, duration>>
    \* the tick body has printed nothing and has not called the log sink yet
    /\ statusCode' = 0
    /\ stdoutText' = <<>>
    /\ stdoutAt' = 0
    /\ stdoutDur' = 0
    /\ logArgs' = <<>>
    /\ logFailed' = FALSE
    /\ UNCHANGED <<cfgVars, hookVars, ret, donePending, doneObserved, cancelAt, printed,
                   logCalls, logLines, logExists, logFailures, unitVars>>

\* the target answers with a redirect: http.Client consults CheckRedirect
RedirectResponse ==
    /\ pc = "do"
    /\ ~targetSlow
    /\ RedirectAvailable
    /\ \E loc \in LocationURLs :
          LET decision == CheckRedirect(via)
          IN  /\ lastRedirect' = decision
              /\ CASE decision = "follow" ->
                        /\ via' = via + 1
                        /\ UNCHANGED <<pc, inflight, lastLoc, respStatus, duration, sinkVars>>
                   [] decision = "useLast" ->
                        \* Do returns the redirect response itself, no error
                        /\ pc' = "readbody"
                        /\ inflight' = inflight - 1
                        /\ respStatus' = StatusFound
                        /\ \E d \in Durations : duration' = d
                        /\ UNCHANGED <<via, lastLoc, sinkVars>>
                   [] decision = "stopped" ->
                        \* Do returns the hook's error wrapped with the Location
                        /\ pc' = "select"
                        /\ inflight' = inflight - 1
                        /\ lastLoc' = loc
                        /\ \E d \in Durations :
                              /\ duration' = d
                              /\ EmitFailure(UrlError(loc, StoppedAfter(cfgMaxCount)), d,
                                             "stopped")
                        /\ UNCHANGED <<via, respStatus>>
    /\ UNCHANGED <<cfgVars, hookVars, ret, chanVars, ticksStarted, requestedAt, unitVars>>

\* the target answers with a response that is no redirect
TerminalResponse ==
    /\ pc = "do"
    /\ ~targetSlow
    /\ ~RedirectAvailable
    /\ \E st \in TerminalStatuses : respStatus' = st
    /\ \E d \in Durations : duration' = d
    /\ pc' = "readbody"
    /\ inflight' = inflight - 1
    /\ UNCHANGED <<cfgVars, hookVars, ret, chanVars, ticksStarted, via, lastRedirect, lastLoc,
                   requestedAt, sinkVars, unitVars>>

\* a deadline of the connect timeout alone
DeadlineConnectOnly == cfgConnect

\* line 195: context.WithTimeout(ctx, config.Timeout.Connect+config.Timeout.Read)
Deadline == cfgConnect + cfgRead

\* the transport fails before the deadline, or the deadline passes and the
\* request is aborted; a target that sleeps leaves only the deadline
TransportFailure ==
    /\ pc = "do"
    /\ \E d \in Durations, e \in NetErrors :
          /\ d <= Deadline
          /\ (e = DeadlineExceeded) <=> (d = Deadline)
          /\ targetSlow => e = DeadlineExceeded
          /\ duration' = d
          /\ EmitFailure(UrlError(cfgURL, e), d, "transport")
    /\ pc' = "select"
    /\ inflight' = inflight - 1
    /\ UNCHANGED <<cfgVars, hookVars, ret, chanVars, ticksStarted, via, lastRedirect, lastLoc,
                   respStatus, requestedAt, unitVars>>

\* lines 208-234: io.ReadAll, validateResponse, the result line, the log sink
ReadBody ==
    /\ pc = "readbody"
    /\ pc' = "select"
    /\ \E readOk \in BOOLEAN, body \in Bodies :
          IF ~readOk
             THEN AbortTick
             ELSE IF validateResponse(cfgAsserts, respStatus, body) # Nil
                     THEN Emit(StatusAssertFailed, errorMessages(StatusAssertFailed),
                               duration, "assert", {"Assert failed"})
                     ELSE Emit(respStatus, Itoa(respStatus), duration, "ok", {})
    /\ UNCHANGED <<cfgVars, hookVars, ret, chanVars, ticksStarted, probeVars, unitVars>>

Next ==
    \/ Main
    \/ OnStart
    \/ Setup
    \/ TimerFire
    \/ Cancel
    \/ SelectDone
    \/ SelectTick
    \/ RedirectResponse
    \/ TerminalResponse
    \/ TransportFailure
    \/ ReadBody

Spec == Init /\ [][Next]_vars

(***************************************************************************)
(* getErrorStatus called on its own, as TestErrorStatus calls it.          *)
(***************************************************************************)
Fragments ==
    { NoSuchHostText, ConnectionRefusedText, TimeoutText, DeadlineExceededText,
      StoppedAfterText, RedirectsText, <<"t", "i", "m", "e">>, <<"o", "u", "t">>, <<" ">>, <<"E", "O", "F">> }

RECURSIVE Flatten(_)
Flatten(ss) == IF ss = <<>> THEN <<>> ELSE Head(ss) \o Flatten(Tail(ss))

Messages == { Flatten(fs) : fs \in UNION { [1..n -> Fragments] : n \in 0..MaxFragments } }

InitClassify ==
    /\ cfgURL = PlainURL
    /\ cfgEnabled = TRUE
    /\ cfgMaxCount = 0
    /\ cfgAsserts = NoAsserts
    /\ cfgLog = Nil
    /\ cfgDone = FALSE
    /\ cfgHook = Nil
    /\ cfgCookieFile = Nil
    /\ cfgConnect = 1
    /\ cfgRead = 1
    /\ targetSlow = FALSE
    /\ entry = "runCheck"
    /\ chain = 0
    /\ cyclic = FALSE
    /\ pc = "start"
    /\ ret = "running"
    /\ hookRuns = 0
    /\ hookFailed = FALSE
    /\ tickPending = FALSE
    /\ donePending = FALSE
    /\ doneObserved = FALSE
    /\ cancelAt = "never"
    /\ ticksStarted = 0
    /\ inflight = 0
    /\ via = 0
    /\ lastRedirect = "none"
    /\ lastLoc = <<>>
    /\ respStatus = 0
    /\ requestedAt = 0
    /\ duration = 0
    /\ outcome = "none"
    /\ statusCode = 0
    /\ stdoutText = <<>>
    /\ printed = 0
    /\ logCalls = 0
    /\ logLines = 0
    /\ logFailed = FALSE
    /\ stdoutAt = 0
    /\ stdoutDur = 0
    /\ logArgs = <<>>
    /\ logExists = FALSE
    /\ logFailures = 0
    /\ diags = {}
    /\ errIn \in {NilErr} \cup Messages
    /\ classified = <<>>
    /\ vAsserts = NoAsserts
    /\ vStatus = 0
    /\ vBody = <<>>
    /\ vOut = <<>>
    /\ IdleWriteLog /\ IdleCookies /\ IdleConfig

Classify ==
    /\ classified = <<>>
    /\ classified' = <<getErrorStatus(errIn)>>
    /\ UNCHANGED <<cfgVars, hookVars, pc, ret, chanVars, ticksStarted, probeVars, sinkVars, errIn,
                   validateVars, writeLogVars, cookieVars, configVars>>

NextClassify == Classify

SpecClassify == InitClassify /\ [][NextClassify]_vars

(***************************************************************************)
(* validateResponse called on its own, on the inputs of TestAsserts and on *)
(* patterns that do not compile.                                           *)
(***************************************************************************)
ValidateValues == {{}, {200}, {200, 201}}
StatusPatterns == {<<>>, <<"^", "2", ".", ".", "$">>, <<"5">>, <<"[">>}
BodyPatterns == {<<>>, <<"s", "u", "c", "c", "e", "s", "s">>, <<"(">>}
ValidateAsserts ==
    { [Values |-> v, StatusRegex |-> s, BodyRegex |-> b] :
        v \in ValidateValues, s \in StatusPatterns, b \in BodyPatterns }
ValidateStatuses == {200, 201, 404, 500}
ValidateBodies == {<<>>, <<"a", " ", "s", "u", "c", "c", "e", "s", "s">>, <<"f", "a", "i", "l", "e", "d">>}

InitValidate ==
    /\ cfgURL = PlainURL
    /\ cfgEnabled = TRUE
    /\ cfgMaxCount = 0
    /\ cfgAsserts = NoAsserts
    /\ cfgLog = Nil
    /\ cfgDone = FALSE
    /\ cfgHook = Nil
    /\ cfgCookieFile = Nil
    /\ cfgConnect = 1
    /\ cfgRead = 1
    /\ targetSlow = FALSE
    /\ entry = "runCheck"
    /\ chain = 0
    /\ cyclic = FALSE
    /\ pc = "start"
    /\ ret = "running"
    /\ hookRuns = 0
    /\ hookFailed = FALSE
    /\ tickPending = FALSE
    /\ donePending = FALSE
    /\ doneObserved = FALSE
    /\ cancelAt = "never"
    /\ ticksStarted = 0
    /\ inflight = 0
    /\ via = 0
    /\ lastRedirect = "none"
    /\ lastLoc = <<>>
    /\ respStatus = 0
    /\ requestedAt = 0
    /\ duration = 0
    /\ outcome = "none"
    /\ statusCode = 0
    /\ stdoutText = <<>>
    /\ printed = 0
    /\ logCalls = 0
    /\ logLines = 0
    /\ logFailed = FALSE
    /\ stdoutAt = 0
    /\ stdoutDur = 0
    /\ logArgs = <<>>
    /\ logExists = FALSE
    /\ logFailures = 0
    /\ diags = {}
    /\ errIn = NilErr
    /\ classified = <<>>
    /\ vAsserts \in ValidateAsserts
    /\ vStatus \in ValidateStatuses
    /\ vBody \in ValidateBodies
    /\ vOut = <<>>
    /\ IdleWriteLog /\ IdleCookies /\ IdleConfig

Validate ==
    /\ vOut = <<>>
    /\ vOut' = <<validateResponse(vAsserts, vStatus, vBody)>>
    /\ UNCHANGED <<cfgVars, hookVars, pc, ret, chanVars, ticksStarted, probeVars, sinkVars,
                   classifyVars, vAsserts, vStatus, vBody, writeLogVars, cookieVars,
                   configVars>>

NextValidate == Validate

SpecValidate == InitValidate /\ [][NextValidate]_vars

(***************************************************************************)
(* Config.WriteLog called on its own, as TestWriteLog calls it, on a log   *)
(* file that is absent or holds some lines.                                *)
(***************************************************************************)
\* runCheck has not been entered
IdleRunCheck ==
    /\ cfgURL = PlainURL
    /\ cfgEnabled = TRUE
    /\ cfgMaxCount = 0
    /\ cfgAsserts = NoAsserts
    /\ cfgLog = Nil
    /\ cfgDone = FALSE
    /\ cfgHook = Nil
    /\ cfgCookieFile = Nil
    /\ cfgConnect = 1
    /\ cfgRead = 1
    /\ targetSlow = FALSE
    /\ chain = 0
    /\ cyclic = FALSE
    /\ pc = "start"
    /\ ret = "running"
    /\ hookRuns = 0
    /\ hookFailed = FALSE
    /\ tickPending = FALSE
    /\ donePending = FALSE
    /\ doneObserved = FALSE
    /\ cancelAt = "never"
    /\ ticksStarted = 0
    /\ inflight = 0
    /\ via = 0
    /\ lastRedirect = "none"
    /\ lastLoc = <<>>
    /\ respStatus = 0
    /\ requestedAt = 0
    /\ duration = 0
    /\ outcome = "none"
    /\ statusCode = 0
    /\ stdoutText = <<>>
    /\ printed = 0
    /\ logCalls = 0
    /\ logLines = 0
    /\ logFailed = FALSE
    /\ stdoutAt = 0
    /\ stdoutDur = 0
    /\ logArgs = <<>>
    /\ logExists = FALSE
    /\ logFailures = 0
    /\ diags = {}

LogFiles == {NoFile} \cup { [exists |-> TRUE, lines |-> n] : n \in 0..MaxLines }

InitWriteLog ==
    /\ IdleRunCheck /\ entry = "runCheck"
    /\ IdleClassify /\ IdleValidate /\ IdleCookies /\ IdleConfig
    /\ wlFormat \in {Nil} \cup LogFormats
    /\ wlFile \in LogFiles
    /\ wlBefore = wlFile
    /\ wlErr = <<>>
    /\ wlCalls = 0
    \* the path is varied for the line templates that render
    /\ wlPath \in (IF wlFormat \in {GoodFormat, FullFormat} THEN LogPaths ELSE {PlainPath})
    \* LoadConfig stamped the Config at second 0 or 1, or nothing did
    /\ wlStart \in (IF wlPath = TokenPath THEN {ZeroTime, 0, 1} ELSE {0})
    /\ wlNow = (IF wlStart = ZeroTime THEN 0 ELSE wlStart)
    /\ wlWrites = <<>>

\* one tick of runCheck, some seconds after the one before: lines 230-234
WriteLogCall ==
    /\ wlCalls < MaxCalls
    /\ \E io \in LogIO, passed \in 0..1 :
          LET r == WriteLog(wlFormat, wlFile, io)
              now == wlNow + passed
          IN  /\ wlErr' = <<r.err>>
              /\ wlFile' = r.file
              /\ wlNow' = now
              /\ wlWrites' =
                    IF r.file # wlFile /\ r.file.lines > (IF wlFile.exists THEN wlFile.lines ELSE 0)
                       THEN Append(wlWrites, [path |-> LogPath(wlPath, wlStart, now),
                                              tick |-> wlCalls + 1])
                       ELSE wlWrites
    /\ wlBefore' = wlFile
    /\ wlCalls' = wlCalls + 1
    /\ UNCHANGED <<cfgVars, hookVars, pc, ret, chanVars, ticksStarted, probeVars, sinkVars,
                   classifyVars, validateVars, wlFormat, wlPath, wlStart, cookieVars, configVars>>

NextWriteLog == WriteLogCall

SpecWriteLog == InitWriteLog /\ [][NextWriteLog]_vars

(***************************************************************************)
(* Config.SetupCookies (src/config.go:99-129) called on its own, with a    *)
(* cookie file that opens.  A line of the file is the sequence of its      *)
(* pieces: words, and the white space between them.                        *)
(***************************************************************************)
CookieNames == {"session", "user"}
InlineValues == {"inline1", "inline2"}
\* the entries config.Cookies is made of
InlineCookies == { [Key |-> k, Value |-> v] : k \in CookieNames, v \in InlineValues }

WhiteSpace == {" ", "\t"}

\* a data line of a Netscape cookie file, its fields separated by tabs
DataLine(name, value) ==
    <<".example.com", "\t", "TRUE", "\t", "/", "\t", "FALSE", "\t", "1735689600", "\t",
      name, "\t", value>>
\* a data line written with runs of spaces, and a field after the value
SpacedLine(name, value) ==
    <<".example.com", " ", " ", "TRUE", " ", "/", " ", "FALSE", " ", "0", " ", " ",
      name, " ", value, " ", "more">>
\* a data line that is commented out, an empty line, a line of spaces, a line
\* of six fields
CommentLine ==
    <<"#", " ", ".example.com", "\t", "TRUE", "\t", "/", "\t", "FALSE", "\t", "session",
      "\t", "commented">>
BlankLine == <<>>
SpacesLine == <<" ", " ">>
ShortLine ==
    <<".example.com", "\t", "TRUE", "\t", "/", "\t", "FALSE", "\t", "1735689600", "\t",
      "session">>
FileLines ==
    { DataLine(n, "file1") : n \in CookieNames }
        \cup {SpacedLine("user", "file2"), CommentLine, BlankLine, SpacesLine, ShortLine}

\* strings.HasPrefix(line, "#") || line == ""
SkippedLine(line) == line = <<>> \/ line[1] = "#"

\* strings.Fields: the words of the line, white space dropped
RECURSIVE Fields(_)
Fields(line) ==
    IF line = <<>> THEN <<>>
    ELSE IF Head(line) \in WhiteSpace THEN Fields(Tail(line))
    ELSE <<Head(line)>> \o Fields(Tail(line))

\* a loader that reads a commented line as it reads any other
RECURSIVE loadCookiesFromFileReadsComments(_)
loadCookiesFromFileReadsComments(lines) ==
    IF lines = <<>> THEN <<>>
    ELSE LET fields == Fields(Head(lines))
             rest == loadCookiesFromFileReadsComments(Tail(lines))
         IN  IF Len(fields) < 7
                THEN rest
                ELSE <<[Name |-> fields[6], Value |-> fields[7]]>> \o rest

\* loadCookiesFromFile (src/config.go:131-158): the cookies of the lines
RECURSIVE loadCookiesFromFile(_)
loadCookiesFromFile(lines) ==
    IF lines = <<>> THEN <<>>
    ELSE LET line == Head(lines)
             fields == Fields(line)
             rest == loadCookiesFromFile(Tail(lines))
         IN  IF SkippedLine(line) \/ Len(fields) < 7
                THEN rest
                ELSE <<[Name |-> fields[6], Value |-> fields[7]]>> \o rest

\* lines 108-113: the cookies made of config.Cookies
RECURSIVE ConfigCookies(_)
ConfigCookies(cookies) ==
    IF cookies = <<>> THEN <<>>
    ELSE <<[Name |-> Head(cookies).Key, Value |-> Head(cookies).Value]>>
            \o ConfigCookies(Tail(cookies))

\* lines 105-122: the slice handed to jar.SetCookies
MergedCookies(cookies, lines) == ConfigCookies(cookies) \o loadCookiesFromFile(lines)

\* cookiejar.Jar.SetCookies: the entries are stored one after the other under
\* their name (with the domain and path of the URL), a later one replacing an
\* earlier one of the same name
RECURSIVE SetCookies(_, _)
SetCookies(jar, cookies) ==
    IF cookies = <<>> THEN jar
    ELSE SetCookies({ c \in jar : c.Name # Head(cookies).Name } \cup {Head(cookies)},
                    Tail(cookies))

InitCookies ==
    /\ IdleRunCheck /\ entry = "runCheck"
    /\ IdleClassify /\ IdleValidate /\ IdleWriteLog /\ IdleConfig
    /\ ckCookies \in UNION { [1..n -> InlineCookies] : n \in 0..MaxCookies }
    /\ ckLines \in UNION { [1..n -> FileLines] : n \in 0..MaxCookieLines }
    /\ ckLoaded = <<>>
    /\ ckJar = <<>>

SetupCookiesCall ==
    /\ ckJar = <<>>
    /\ ckLoaded' = <<loadCookiesFromFile(ckLines)>>
    /\ ckJar' = <<SetCookies({}, MergedCookies(ckCookies, ckLines))>>
    /\ UNCHANGED <<cfgVars, hookVars, pc, ret, chanVars, ticksStarted, probeVars, sinkVars,
                   classifyVars, validateVars, writeLogVars, ckCookies, ckLines, configVars>>

NextCookies == SetupCookiesCall

SpecCookies == InitCookies /\ [][NextCookies]_vars

(***************************************************************************)
(* The configuration main hands to runCheck (src/main.go:53-76): read by   *)
(* LoadConfig from a file, or built from a bare URL.  Times are in seconds.*)
(***************************************************************************)
DefaultInterval == 1
DefaultConnect == 3
DefaultRead == 7
DefaultMaxCount == 10
\* a LoadConfig without a default for the acceptable statuses
DefaultStatusValuesNone == {}

\* lines 80-84: Asserts.StatusCode.Values
DefaultStatusValues == {200}

\* the values of the keys of TestLoadConfig's full config, and a status pattern
YamlCookies == <<[Key |-> "session", Value |-> "abc123"]>>
YamlCookieFile == "/tmp/cookies.txt"
YamlLog == [Path |-> TokenPath, Format |-> FullFormat]
YamlStatusRegex == <<"^", "2", ".", ".", "$">>

\* the files: every key is set or not, with the values of TestLoadConfig; a
\* duration is the text the file holds
Yamls ==
    { [url |-> u, interval |-> i, connect |-> c, read |-> r, enabled |-> e,
       max_count |-> m, values |-> v, regex |-> x, cookies |-> k, cookie_file |-> f,
       log |-> l] :
        u \in {Absent, <<EmptyURL>>, <<PlainURL>>},
        i \in {Absent, <<<<"2", "s">>>>, <<<<"1", "m">>>>},
        c \in {Absent, <<<<"5", "s">>>>},
        r \in {Absent, <<<<"1", "0", "s">>>>}, e \in {Absent, <<TRUE>>, <<FALSE>>},
        m \in {Absent, <<5>>}, v \in {Absent, <<{200, 201}>>},
        x \in {Absent, <<YamlStatusRegex>>},
        k \in {Absent, <<YamlCookies>>}, f \in {Absent, <<YamlCookieFile>>},
        l \in {Absent, <<YamlLog>>} }

\* yaml.Unmarshal into a field that holds a value: a key that is set replaces it
Unmarshal(key, held) == IF key = Absent THEN held ELSE key[1]

IsDigit(c) == c \in { Digit(d) : d \in 0..9 }

\* the number a run of decimal digits stands for
RECURSIVE Atoi(_)
Atoi(digits) ==
    IF digits = <<>> THEN 0
    ELSE Atoi(SubSeq(digits, 1, Len(digits) - 1)) * 10
            + (CHOOSE d \in 0..9 : Digit(d) = digits[Len(digits)])

\* time.ParseDuration of a number and a unit, in seconds
ParseDuration(text) ==
    LET unit == SelectSeq(text, LAMBDA c : ~IsDigit(c))
    IN  Atoi(SelectSeq(text, IsDigit))
            * (CASE unit = <<"s">> -> 1 [] unit = <<"m">> -> 60 [] unit = <<"h">> -> 3600)

\* yaml.Unmarshal into a time.Duration: the text of the key is parsed
UnmarshalDuration(key, held) == IF key = Absent THEN held ELSE ParseDuration(key[1])

\* lines 70-90: the Config of the defaults, and the keys of the file over it;
\* the fields without a default start as the zero value (a nil Log is <<>>)
LoadedConfig(yaml) ==
    [URL |-> Unmarshal(yaml.url, EmptyURL),
     Interval |-> UnmarshalDuration(yaml.interval, DefaultInterval),
     Connect |-> UnmarshalDuration(yaml.connect, DefaultConnect),
     Read |-> UnmarshalDuration(yaml.read, DefaultRead),
     Enabled |-> Unmarshal(yaml.enabled, TRUE),
     MaxCount |-> Unmarshal(yaml.max_count, DefaultMaxCount),
     Values |-> Unmarshal(yaml.values, DefaultStatusValues),
     StatusRegex |-> Unmarshal(yaml.regex, <<>>),
     BodyRegex |-> <<>>,
     Cookies |-> Unmarshal(yaml.cookies, <<>>),
     CookieFile |-> Unmarshal(yaml.cookie_file, ""),
     Log |-> IF yaml.log = Absent THEN <<>> ELSE <<yaml.log[1]>>]

\* a LoadConfig that hands back what it read together with the error
LoadConfigKeepsConfig(yaml) ==
    LET config == LoadedConfig(yaml)
    IN  IF config.URL = EmptyURL
           THEN [err |-> "url is required", config |-> <<config>>]
           ELSE [err |-> Nil, config |-> <<config>>]

\* LoadConfig (src/config.go:64-97) of a file that reads and parses: the
\* error and the *Config, <<>> for nil
LoadConfig(yaml) ==
    LET config == LoadedConfig(yaml)
    IN  IF config.URL = EmptyURL
           THEN [err |-> "url is required", config |-> <<>>]
           ELSE [err |-> Nil, config |-> <<config>>]

\* the literal of src/main.go:68-75; the fields it does not name are zero
BareURLConfig(url) ==
    [URL |-> url, Interval |-> DefaultInterval, Connect |-> DefaultConnect,
     Read |-> DefaultRead, Enabled |-> FALSE, MaxCount |-> 0, Values |-> {},
     StatusRegex |-> <<>>, BodyRegex |-> <<>>, Cookies |-> <<>>, CookieFile |-> "",
     Log |-> <<>>]

\* config.Asserts, as validateResponse reads it
Asserts(config) ==
    [Values |-> config.Values, StatusRegex |-> config.StatusRegex,
     BodyRegex |-> config.BodyRegex]

\* the statuses of the responses the loaded configuration is tried on
LoadedStatuses == {200, 201, 404}

InitConfig ==
    /\ IdleRunCheck
    /\ IdleClassify /\ IdleValidate /\ IdleWriteLog /\ IdleCookies
    /\ entry \in {"file", "arg"}
    /\ cfYaml \in (IF entry = "file" THEN Yamls ELSE {EmptyYaml})
    /\ cfArg \in (IF entry = "arg" THEN {PlainURL, TimeoutPathURL} ELSE {<<>>})
    /\ cfOut = <<>>
    /\ cfVerdict = <<>>

\* lines 56-61: -c is given
ConfigFromFile ==
    /\ entry = "file"
    /\ cfOut = <<>>
    /\ cfOut' = <<LoadConfig(cfYaml)>>
    /\ UNCHANGED <<cfgVars, hookVars, pc, ret, chanVars, ticksStarted, probeVars, sinkVars,
                   classifyVars, validateVars, writeLogVars, cookieVars, cfYaml, cfArg,
                   cfVerdict>>

\* lines 62-76: one argument and no -c
ConfigFromArg ==
    /\ entry = "arg"
    /\ cfOut = <<>>
    /\ cfOut' = <<[err |-> Nil, config |-> <<BareURLConfig(cfArg)>>]>>
    /\ UNCHANGED <<cfgVars, hookVars, pc, ret, chanVars, ticksStarted, probeVars, sinkVars,
                   classifyVars, validateVars, writeLogVars, cookieVars, cfYaml, cfArg,
                   cfVerdict>>

\* src/main.go:215-227: a tick of runCheck validates a response against the
\* configuration main handed over
ValidateLoaded ==
    /\ cfOut # <<>>
    /\ cfOut[1].err = Nil
    /\ cfVerdict = <<>>
    /\ \E status \in LoadedStatuses :
          cfVerdict' = <<[status |-> status,
                          err |-> validateResponse(Asserts(cfOut[1].config[1]), status, <<>>)]>>
    /\ UNCHANGED <<cfgVars, hookVars, pc, ret, chanVars, ticksStarted, probeVars, sinkVars,
                   classifyVars, validateVars, writeLogVars, cookieVars, cfYaml, cfArg,
                   cfOut>>

NextConfig == ConfigFromFile \/ ConfigFromArg \/ ValidateLoaded

SpecConfig == InitConfig /\ [][NextConfig]_vars

(***************************************************************************)
(* runCheck as a loop without end: the program keeps no count of its ticks, *)
(* and the requests it sends end.                                          *)
(***************************************************************************)
\* a caller of runCheck with a done channel or nil, a target that answers or
\* sleeps, a cookie file that opens or does not
InitLive ==
    /\ Init
    /\ entry = "runCheck"
    /\ cfgURL = PlainURL
    /\ cfgEnabled /\ cfgMaxCount = MaxHopBudget
    /\ cfgAsserts = NoAsserts /\ cfgLog = Nil
    /\ cfgHook = Nil
    /\ cfgCookieFile \in {Nil, MissingFile}
    /\ targetSlow => (cfgConnect = 1 /\ cfgRead = 1)

\* line 179, for { ... }: the loop carries no tick count from one round to
\* the next; the counts kept for the properties of a bounded run start again
ForgetTicks ==
    /\ pc = "select"
    /\ ticksStarted = MaxTicks
    /\ ticksStarted' = 0
    /\ requestedAt' = 0
    /\ printed' = 0
    /\ stdoutAt' = 0
    /\ UNCHANGED <<cfgVars, pc, ret, hookVars, chanVars, unitVars>>
    /\ UNCHANGED <<inflight, via, lastRedirect, lastLoc, respStatus, duration>>
    /\ UNCHANGED <<outcome, diags, statusCode, stdoutText, stdoutDur, logVars>>

NextLive ==
    \/ OnStart
    \/ Setup
    \/ TimerFire
    \/ Cancel
    \/ SelectDone
    \/ SelectTick
    \/ RedirectResponse
    \/ TerminalResponse
    \/ TransportFailure
    \/ ReadBody
    \/ ForgetTicks

\* the goroutine of runCheck runs: setup goes on, and client.Do and
\* io.ReadAll return, by the deadline of lines 194-197 at the latest
RunCheckProgress ==
    /\ WF_vars(OnStart)
    /\ WF_vars(Setup)
    /\ WF_vars(RedirectResponse \/ TerminalResponse \/ TransportFailure)
    /\ WF_vars(ReadBody)

\* a select that may pass over a case that is ready at every other visit
SelectFairnessWeak == WF_vars(SelectDone)

\* lines 180-184: select picks among its ready cases at random, so a case
\* that is ready at infinitely many visits is picked
SelectFairness == SF_vars(SelectDone)

SpecLive == InitLive /\ [][NextLive]_vars /\ RunCheckProgress /\ SelectFairness

(***************************************************************************)
(* Properties of the scheduling loop.                                      *)
(***************************************************************************)

\* C1: probes are strictly sequential.  At most one request is in flight in
\* every step of runCheck, a request is outstanding exactly while client.Do
\* runs, and a tick or the cancellation signal is received only at the select
\* with nothing outstanding, so a tick body ends before the next tick or the
\* signal is looked at, also when ticker.C already holds the next tick.
C1_Sequential ==
    [][ /\ inflight' <= 1
        /\ (pc' = "do") <=> (inflight' = 1)
        /\ (ticksStarted' # ticksStarted \/ doneObserved' # doneObserved)
              => (pc = "select" /\ inflight = 0)
        /\ (InTickBody /\ tickPending) => (ticksStarted' = ticksStarted /\ tickPending')
      ]_vars

\* the timer fired again while the request of the second tick is outstanding
C1_Witness == pc = "do" /\ inflight = 1 /\ tickPending /\ ticksStarted >= 1

\* C2: no per-tick outcome ends the loop.  A tick body, however it ends, leaves
\* runCheck at the select and not returned; once the ticker runs, runCheck
\* returns only from the select, by receiving a pending cancellation, with nil.
C2_LoopContinues ==
    [][ /\ InTickBody => (pc' \in {"do", "readbody", "select"} /\ ret' = ret)
        /\ (pc = "select" /\ ticksStarted' # ticksStarted)
              => (pc' \in {"do", "select"} /\ ret' = ret)
        /\ (TickerStarted /\ pc # "returned" /\ pc' = "returned")
              => /\ pc = "select"
                 /\ cfgDone /\ donePending
                 /\ doneObserved'
                 /\ ret' = Nil
      ]_vars

\* a tick ended in a transport failure and a failed log write, the loop went on
\* with a second tick, and runCheck returned nil on cancellation
C2_Witness ==
    /\ pc = "returned" /\ ret = Nil /\ doneObserved
    /\ ticksStarted >= 2
    /\ outcome = "transport" /\ logFailed

\* C3 as claimed: with a cancellation pending at the select, runCheck starts no
\* further probe, even when a tick is pending too.
C3_CancelHasPriority ==
    [][ (pc = "select" /\ cfgDone /\ donePending) => ticksStarted' = ticksStarted ]_vars

\* C3 as amended: with a cancellation pending at the select and no tick in
\* ticker.C, the next step of runCheck is the return and no probe starts; with
\* both pending the select may take either.
C3_CancelWithoutTick ==
    [][ (pc = "select" /\ cfgDone /\ donePending /\ ~tickPending)
           => /\ ticksStarted' = ticksStarted
              /\ pc' \in {"select", "returned"}
              /\ (pc' = "returned" => ret' = Nil)
      ]_vars

\* the signal came while runCheck waited, no tick was pending, and it returned
C3_Witness ==
    /\ pc = "returned" /\ ret = Nil /\ cancelAt = "select"
    /\ ~tickPending /\ ticksStarted >= 1

\* C4: cancellation never preempts a tick body.  While a cancellation is
\* pending inside a tick body the signal stays unreceived and runCheck does not
\* return; the body ends at the select, having printed its line and called the
\* log sink as it would have without the signal.
C4_NoPreemption ==
    [][ (InTickBody /\ donePending)
           => /\ pc' # "returned"
              /\ donePending' /\ ~doneObserved'
              /\ (pc' = "select" /\ outcome' # "bodyread")
                    => /\ printed' = printed + 1
                       /\ (cfgLog # Nil) => (logCalls' = logCalls + 1)
      ]_vars

\* the signal came while the request was outstanding; the tick printed its
\* result and the signal is still waiting at the select
C4_Witness ==
    /\ cancelAt = "do" /\ cfgDone /\ donePending
    /\ pc = "select" /\ outcome = "ok" /\ printed >= 1

\* C5: with a nil done channel runCheck never returns once setup succeeded.
C5_NoSelfTermination ==
    (~cfgDone /\ pc = "returned") => (ret # Nil /\ ticksStarted = 0 /\ SetupCookies # Nil)

\* a caller has long been trying to cancel through a nil channel and the loop
\* is still ticking
C5_Witness ==
    /\ ~cfgDone /\ donePending /\ cancelAt = "start"
    /\ pc = "select" /\ ticksStarted >= 2

(***************************************************************************)
(* Properties of the redirect policy.                                      *)
(***************************************************************************)
\* redirects the probe has followed
Hops == IF via = 0 THEN 0 ELSE via - 1
\* the tick ended after client.Do returned a response or the hook's refusal
EndedOnPolicy == pc = "select" /\ outcome \in {"ok", "assert", "stopped"}
\* every redirect of the target's chain is inside the budget as the hook counts
FitsBudget == ~cyclic /\ (chain = 0 \/ chain < cfgMaxCount)
RefusedAt == IF cfgMaxCount = 0 THEN 1 ELSE cfgMaxCount

\* C6 as claimed: the hop count starts at 0 and a hop is refused iff the count
\* has reached maxCount, so M redirects are followed before the refusal.
C6_FollowsMaxCount ==
    cfgEnabled =>
        /\ Hops <= cfgMaxCount
        /\ (lastRedirect = "stopped") => (Hops = cfgMaxCount)

\* C6 as amended: the hook counts the requests issued, the original included,
\* so the count is 1 at the first redirect.  A hop is refused iff that count
\* has reached maxCount: with maxCount = M >= 1 the first M - 1 redirects are
\* followed and the M-th is refused, and with M = 0 the first is refused.
C6_FollowsMaxCountMinusOne ==
    cfgEnabled =>
        /\ lastRedirect \in {"none", "follow", "stopped"}
        /\ via <= RefusedAt
        /\ (lastRedirect = "follow") => (1 < via /\ via <= cfgMaxCount)
        /\ (lastRedirect = "stopped") => (via = RefusedAt /\ Hops = RefusedAt - 1)
        /\ (pc = "readbody") => (Hops = chain /\ FitsBudget)

\* a budget of 2: one redirect followed, the second refused
C6_Witness ==
    /\ cfgEnabled /\ cfgMaxCount = 2
    /\ lastRedirect = "stopped" /\ via = 2 /\ outcome = "stopped"

\* C7 as claimed: a chain of L redirects with L <= M ends in the terminal
\* response's status, and L > M ends in the redirect-loop sentinel.
C7_ChainWithinMaxCount ==
    (cfgEnabled /\ EndedOnPolicy) =>
        IF ~cyclic /\ chain <= cfgMaxCount
           THEN /\ outcome = "ok"
                /\ respStatus \in TerminalStatuses
                /\ statusCode = respStatus
           ELSE statusCode = StatusRedirectLoop

\* C7 as amended: a chain of L redirects with L = 0 or L < M reaches the
\* terminal response, whose status is printed when it passes validation
\* (ASSERT_FAILED otherwise); a chain with L >= M and L >= 1, and any cycle,
\* is refused at request number max(M, 1) and the tick prints the code of the
\* hook's error: REDIRECT_LOOP_DETECTED, or TIMEOUT when the refused Location
\* holds "timeout".
C7_ChainBelowMaxCount ==
    (cfgEnabled /\ EndedOnPolicy) =>
        IF FitsBudget
           THEN /\ outcome \in {"ok", "assert"}
                /\ respStatus \in TerminalStatuses
                /\ Hops = chain
                /\ (outcome = "ok") => (statusCode = respStatus /\ stdoutText = Itoa(respStatus))
                /\ (outcome = "assert") => (statusCode = StatusAssertFailed)
           ELSE /\ outcome = "stopped"
                /\ via = RefusedAt
                /\ statusCode =
                      IF Contains(lastLoc, TimeoutText) THEN StatusTimeout
                      ELSE StatusRedirectLoop

\* a chain as long as the budget: the last redirect is refused
C7_Witness ==
    /\ cfgEnabled /\ ~cyclic /\ chain = 2 /\ cfgMaxCount = 2
    /\ pc = "select" /\ outcome = "stopped" /\ statusCode = StatusRedirectLoop

\* C8 as claimed: with redirects disabled the redirect response is not
\* followed, the hook raises no error, and the tick prints the 3xx status.
C8_DisabledPrintsStatus ==
    (~cfgEnabled /\ pc = "select" /\ lastRedirect = "useLast" /\ outcome \in {"ok", "assert"})
        => (via = 1 /\ statusCode = StatusFound)

\* C8 as amended: with redirects disabled no redirect is followed whatever
\* maxCount is, the hook raises no error, and the redirect response is handed
\* to the tick as a terminal response with its 3xx status: the tick prints
\* that status when the response passes validation, and ASSERT_FAILED when the
\* assertions reject it.
C8_DisabledIsTerminal ==
    ~cfgEnabled =>
        /\ lastRedirect \in {"none", "useLast"}
        /\ via <= 1
        /\ outcome # "stopped"
        /\ (lastRedirect = "useLast") =>
              /\ pc \in {"readbody", "select", "returned"}
              /\ respStatus = StatusFound
              /\ outcome \in {"pending", "ok", "assert", "bodyread"}
              /\ (outcome = "ok") =>
                    (statusCode = StatusFound /\ stdoutText = Itoa(StatusFound))
              /\ (outcome = "assert") =>
                    /\ statusCode = StatusAssertFailed
                    /\ \E b \in Bodies : validateResponse(cfgAsserts, StatusFound, b) # Nil

\* redirects disabled with a budget of 2: the first 302 is printed as 302
C8_Witness ==
    /\ ~cfgEnabled /\ cfgMaxCount = 2
    /\ pc = "select" /\ lastRedirect = "useLast"
    /\ outcome = "ok" /\ statusCode = StatusFound

\* C9: a hop refused by the hook is always reported as the redirect-loop
\* sentinel, REDIRECT_LOOP_DETECTED.
C9_RefusalIsRedirectLoop ==
    (outcome = "stopped") =>
        /\ statusCode = StatusRedirectLoop
        /\ stdoutText = errorMessages(StatusRedirectLoop)

(***************************************************************************)
(* Properties of the classifier.                                           *)
(***************************************************************************)
HasDNS == Contains(errIn, NoSuchHostText)
HasRefused == Contains(errIn, ConnectionRefusedText)
HasTimeout == Contains(errIn, TimeoutText) \/ Contains(errIn, DeadlineExceededText)
HasStopped == Contains(errIn, StoppedAfterText) /\ Contains(errIn, RedirectsText)

\* C10 as claimed: nil gives 0, "no such host" -1, "connection refused" -2, a
\* timeout or deadline message -3, any other message -999, and no message
\* gives 0 or -5.
C10_FourCategories ==
    (classified # <<>>) =>
        LET r == classified[1]
        IN  IF errIn = NilErr THEN r = 0
            ELSE /\ HasDNS => r = StatusDNSLookupFailed
                 /\ HasRefused => r = StatusConnectionFailed
                 /\ HasTimeout => r = StatusTimeout
                 /\ ~(HasDNS \/ HasRefused \/ HasTimeout) => r = StatusUnknown
                 /\ r \notin {0, StatusAssertFailed}

\* C10 as amended: nil gives 0; a message gives -1 if it holds "no such host",
\* else -2 if it holds "connection refused", else -3 if it holds "timeout" or
\* "deadline exceeded", else -4 if it holds "stopped after" and "redirects",
\* else -999; no message gives 0 or -5.
C10_FiveCategories ==
    (classified # <<>>) =>
        LET r == classified[1]
        IN  IF errIn = NilErr THEN r = 0
            ELSE /\ r \in {StatusDNSLookupFailed, StatusConnectionFailed, StatusTimeout,
                           StatusRedirectLoop, StatusUnknown}
                 /\ (r = StatusDNSLookupFailed) <=> HasDNS
                 /\ (r = StatusConnectionFailed) <=> (HasRefused /\ ~HasDNS)
                 /\ (r = StatusTimeout) <=> (HasTimeout /\ ~HasRefused /\ ~HasDNS)
                 /\ (r = StatusRedirectLoop)
                       <=> (HasStopped /\ ~HasTimeout /\ ~HasRefused /\ ~HasDNS)
                 /\ r \notin {0, StatusAssertFailed}

\* "stopped after" and "redirects" around other text: the category the claim
\* left out
C10_Witness ==
    /\ classified = <<StatusRedirectLoop>>
    /\ Len(errIn) > Len(StoppedAfterText) + Len(RedirectsText)

(***************************************************************************)
(* Properties of the assertions.                                           *)
(***************************************************************************)
\* the three axes of config.Asserts, each on its own
ValuesAxis == vAsserts.Values = {} \/ vStatus \in vAsserts.Values
StatusPatternAxis ==
    \/ vAsserts.StatusRegex = <<>>
    \/ CompileOk(vAsserts.StatusRegex) /\ MatchString(vAsserts.StatusRegex, Itoa(vStatus))
BodyPatternAxis ==
    \/ vAsserts.BodyRegex = <<>>
    \/ CompileOk(vAsserts.BodyRegex) /\ MatchString(vAsserts.BodyRegex, vBody)

\* C11: validateResponse passes iff every configured axis passes: the status
\* is in the acceptable set when the set is non-empty, the decimal form of
\* the status matches the status pattern when one is set, and the body
\* matches the body pattern when one is set.  An unset axis is satisfied, so
\* with no axis configured every response passes.
C11_PassIffEveryAxis ==
    vOut # <<>> =>
        /\ (vOut[1] = Nil) <=> (ValuesAxis /\ StatusPatternAxis /\ BodyPatternAxis)
        /\ vAsserts = NoAsserts => vOut[1] = Nil

\* a response passed with all three axes configured
C11_Witness ==
    /\ vOut = <<Nil>>
    /\ vAsserts.Values # {}
    /\ vAsserts.StatusRegex # <<>>
    /\ vAsserts.BodyRegex # <<>>

StatusPatternMalformed == vAsserts.StatusRegex # <<>> /\ ~CompileOk(vAsserts.StatusRegex)
BodyPatternMalformed == vAsserts.BodyRegex # <<>> /\ ~CompileOk(vAsserts.BodyRegex)
InvalidPattern == {"invalid status code regex", "invalid body regex"}

\* C12 as stated: with a malformed status or body pattern, validation of
\* every response fails with an invalid-pattern indication, whatever the
\* status and the body are.
C12_MalformedAlwaysInvalid ==
    (vOut # <<>> /\ (StatusPatternMalformed \/ BodyPatternMalformed))
        => vOut[1] \in InvalidPattern

\* C12, amended: with a malformed status or body pattern, validation of
\* every response fails, whatever the status and the body are.  The failure
\* is the invalid-pattern indication of the first malformed axis when the
\* axes evaluated before it pass (values, then status pattern, then body
\* pattern); when an earlier axis fails, the failure is that axis's mismatch
\* message.
C12_MalformedInvalidWhenReached ==
    (vOut # <<>> /\ (StatusPatternMalformed \/ BodyPatternMalformed)) =>
        /\ vOut[1] # Nil
        /\ ~ValuesAxis => vOut[1] = "status code not in expected values"
        /\ (ValuesAxis /\ StatusPatternMalformed) => vOut[1] = "invalid status code regex"
        /\ (ValuesAxis /\ ~StatusPatternAxis /\ ~StatusPatternMalformed)
              => vOut[1] = "status code does not match regex"
        /\ (ValuesAxis /\ StatusPatternAxis /\ BodyPatternMalformed)
              => vOut[1] = "invalid body regex"

\* a malformed body pattern was reported behind a status pattern that matched
C12_Witness ==
    /\ vOut = <<"invalid body regex">>
    /\ vAsserts.StatusRegex # <<>>
    /\ vAsserts.Values # {}

(***************************************************************************)
(* Properties of startup.                                                  *)
(***************************************************************************)
MissingURL == cfgURL = EmptyURL
MalformedTemplate == cfgLog # Nil /\ ~TemplateParses(cfgLog)
MalformedPattern ==
    \/ cfgAsserts.StatusRegex # <<>> /\ ~CompileOk(cfgAsserts.StatusRegex)
    \/ cfgAsserts.BodyRegex # <<>> /\ ~CompileOk(cfgAsserts.BodyRegex)

\* C13 as stated: with a missing URL, a malformed log template or a malformed
\* assertion pattern in the configuration, no tick is ever executed.
C13_ConfigErrorsFatal ==
    (entry = "file" /\ (MissingURL \/ MalformedTemplate \/ MalformedPattern))
        => ticksStarted = 0

\* C13, amended: a configuration file without a URL is fatal to startup:
\* LoadConfig's error is reported before the loop starts and no tick is ever
\* executed.  A malformed log template or assertion pattern is not detected
\* at startup: with a URL the process goes on into the loop, where every log
\* write fails with a diagnostic and leaves the file alone, and no response
\* passes validation.
C13_OnlyMissingURLFatal ==
    /\ (entry = "file" /\ MissingURL)
          => /\ pc \in {"main", "exited"}
             /\ ticksStarted = 0 /\ printed = 0 /\ hookRuns = 0
    /\ pc = "exited" <=> (entry = "file" /\ MissingURL /\ ret = "Failed to load config")
    /\ (entry = "file" /\ ~MissingURL) => pc # "returned"
    /\ (MalformedTemplate /\ logArgs # <<>>)
          => (logFailed /\ "Failed to write log" \in diags /\ ~logExists)
    /\ MalformedPattern => outcome # "ok"

\* a configuration file with a URL, a malformed template and a malformed
\* pattern: a tick ran, printed ASSERT_FAILED and failed to write the log
C13_Witness ==
    /\ entry = "file" /\ MalformedTemplate /\ MalformedPattern
    /\ ticksStarted >= 1 /\ pc = "select"
    /\ outcome = "assert" /\ logFailed

(***************************************************************************)
(* Properties of the result a tick emits.                                  *)
(***************************************************************************)
\* the tick body printed a result line
Emitted == outcome \in {"transport", "stopped", "assert", "ok"}
\* the second field of a result line that reports code
CodeField(code) == IF code < 0 THEN errorMessages(code) ELSE Itoa(code)

\* C14: a tick that emits a result after a transport failure emits the
\* classifier's negative code under its symbolic name, never a raw status and
\* never an empty name; a response that fails validation emits -5 under
\* ASSERT_FAILED; a response that passes emits its HTTP status in decimal.
\* Every emitted code is an HTTP status >= 0 or one of -1, -2, -3, -4, -5,
\* -999.
C14_OutcomeToCode ==
    /\ outcome \in {"transport", "stopped"}
          => /\ statusCode \in {-1, -2, -3, -4, -999}
             /\ stdoutText = errorMessages(statusCode)
             /\ stdoutText # <<>>
             /\ stdoutText # Itoa(respStatus)
    /\ outcome = "assert"
          => /\ statusCode = -5
             /\ stdoutText = <<"A", "S", "S", "E", "R", "T", "_", "F", "A", "I", "L", "E", "D">>
    /\ outcome = "ok"
          => /\ statusCode = respStatus
             /\ stdoutText = Itoa(respStatus)
    /\ Emitted => (statusCode >= 0 \/ statusCode \in {-1, -2, -3, -4, -5, -999})

\* a transport failure of no known category was printed as UNKNOWN_ERROR
C14_Witness ==
    /\ outcome = "transport" /\ statusCode = -999
    /\ stdoutText = <<"U", "N", "K", "N", "O", "W", "N", "_", "E", "R", "R", "O", "R">>

\* C15: a body-read failure after a successful response aborts the tick with
\* no result: the step writes no line to standard output, does not call the
\* log sink and leaves the log file alone, writes only the diagnostic, and
\* takes runCheck back to the select for the next tick.
C15_BodyReadAborts ==
    [][ (pc = "readbody" /\ outcome' = "bodyread")
           => /\ printed' = printed /\ stdoutText' = <<>>
              /\ logCalls' = logCalls /\ logLines' = logLines /\ logArgs' = <<>>
              /\ logExists' = logExists
              /\ diags' = {"Failed to read response body"}
              /\ pc' = "select" /\ ret' = ret
      ]_vars

\* with a log sink, the first tick failed to read the body and the second
\* tick printed and logged its result
C15_Witness ==
    /\ cfgLog # Nil /\ ticksStarted = 2 /\ outcome = "ok"
    /\ printed = 1 /\ logCalls = 1

\* C16: with a log sink WriteLog is called exactly once for each tick that
\* printed a result line, with the tick's requestedAt, the code the line
\* reports and the same duration; a tick that prints no result does not call
\* it, and without a log sink it is never called.
C16_LogMirrorsStdout ==
    /\ cfgLog = Nil => (logCalls = 0 /\ logArgs = <<>>)
    /\ cfgLog # Nil
          => /\ logCalls = printed
             /\ printed <= ticksStarted
             /\ (logArgs # <<>>) <=> (Emitted /\ stdoutText # <<>>)
    /\ logArgs # <<>>
          => /\ logArgs = <<requestedAt, statusCode, duration>>
             /\ stdoutAt = logArgs[1] /\ stdoutDur = logArgs[3]
             /\ stdoutText = CodeField(logArgs[2])
             /\ requestedAt = ticksStarted
    /\ ~Emitted => logArgs = <<>>

\* the second tick's failure was printed under its name and logged under its
\* number, with the second tick's time and the longer duration
C16_Witness ==
    /\ cfgLog # Nil /\ outcome = "transport"
    /\ logArgs = <<2, StatusTimeout, MaxDuration>>
    /\ printed = 2

\* C17: a log-write failure is not fatal.  The step in which WriteLog fails
\* writes the diagnostic, prints the tick's line as it would have otherwise
\* and goes back to the select without returning; every later tick that
\* prints a result calls WriteLog again.
C17_LogFailureNotFatal ==
    [][ /\ (logFailures' = logFailures + 1)
              => /\ "Failed to write log" \in diags'
                 /\ printed' = printed + 1
                 /\ stdoutText' = CodeField(statusCode')
                 /\ stdoutAt' = requestedAt
                 /\ pc' = "select" /\ ret' = "running"
        /\ (logFailures >= 1 /\ printed' = printed + 1) => logCalls' = logCalls + 1
        /\ (logFailures >= 1 /\ pc' = "returned") => (ret' = Nil /\ doneObserved')
      ]_vars

\* the first write failed at the file, the second tick wrote its line
C17_Witness ==
    /\ cfgLog = GoodFormat /\ logFailures = 1 /\ logCalls = 2
    /\ logLines = 1 /\ ~logFailed /\ pc = "select"

(***************************************************************************)
(* Properties of the log sink.                                             *)
(***************************************************************************)
\* the line template looks up a key that WriteLog does not supply
UnknownKey ==
    /\ wlFormat # Nil /\ TemplateParses(wlFormat)
    /\ \E k \in TemplateKeys(wlFormat) : k \notin {"requestedAt", "statusCode", "duration"}

InlineNames == { ckCookies[i].Key : i \in 1..Len(ckCookies) }
LastInline(n) ==
    LET i == CHOOSE i \in 1..Len(ckCookies) :
                 /\ ckCookies[i].Key = n
                 /\ \A j \in (i + 1)..Len(ckCookies) : ckCookies[j].Key # n
    IN  ckCookies[i].Value
\* the same for the data lines of the cookie file
Words(line) == SelectSeq(line, LAMBDA piece : piece \notin {" ", "\t"})
IsComment(line) == line # <<>> /\ Head(line) = "#"
IsDataLine(line) == ~IsComment(line) /\ Len(Words(line)) >= 7
FileNames == { Words(ckLines[i])[6] : i \in { k \in 1..Len(ckLines) : IsDataLine(ckLines[k]) } }
LastInFile(n) ==
    LET i == CHOOSE i \in 1..Len(ckLines) :
                 /\ IsDataLine(ckLines[i]) /\ Words(ckLines[i])[6] = n
                 /\ \A j \in (i + 1)..Len(ckLines) :
                        ~(IsDataLine(ckLines[j]) /\ Words(ckLines[j])[6] = n)
    IN  Words(ckLines[i])[7]

\* C19: inline config cookies are applied after cookie-file cookies: after
\* SetupCookies the jar holds, for a name both sources supply, the inline
\* value, and for a name one source supplies, that source's value.
C19_InlineAfterFile ==
    ckJar # <<>> =>
        /\ \A n \in InlineNames : [Name |-> n, Value |-> LastInline(n)] \in ckJar[1]
        /\ \A n \in FileNames \ InlineNames : [Name |-> n, Value |-> LastInFile(n)] \in ckJar[1]
        /\ { c.Name : c \in ckJar[1] } = InlineNames \cup FileNames

(***************************************************************************)
(* Properties of the configuration.                                        *)
(***************************************************************************)
\* C20: for every run, from a configuration file or from a bare URL, a
\* field the user did not supply has its default: interval 1 s, connect
\* timeout 3 s, read timeout 7 s, redirects enabled with at most 10 hops,
\* status-code assertion {200}.
C20_DefaultsWhenAbsent ==
    (cfOut # <<>> /\ cfOut[1].err = Nil) =>
        LET config == cfOut[1].config[1]
        IN  /\ cfYaml.interval = Absent => config.Interval = 1
            /\ cfYaml.connect = Absent => config.Connect = 3
            /\ cfYaml.read = Absent => config.Read = 7
            /\ cfYaml.enabled = Absent => config.Enabled = TRUE
            /\ cfYaml.max_count = Absent => config.MaxCount = 10
            /\ cfYaml.values = Absent => config.Values = {200}

C22_HookOnceBeforeSetup ==
    /\ hookRuns <= 1
    /\ pc \in {"main", "exited", "start"} => hookRuns = 0
    /\ (cfgHook # Nil /\ pc \in {"cookies", "select", "do", "readbody", "returned"})
          => hookRuns = 1
    /\ cfgHook = Nil => (hookRuns = 0 /\ ~hookFailed)
    /\ pc = "cookies" => (ticksStarted = 0 /\ inflight = 0 /\ printed = 0)
    /\ hookFailed =>
          /\ pc \in {"cookies", "select", "do", "readbody", "returned"}
          /\ (pc = "returned" /\ ret # Nil) => SetupCookies # Nil
          /\ (pc # "cookies" /\ SetupCookies = Nil)
                => (pc \in {"select", "do", "readbody"} \/ (pc = "returned" /\ ret = Nil))

\* the hook failed, and the loop is past its second tick with the hook run once
C22_Witness ==
    /\ cfgHook # Nil /\ hookFailed /\ hookRuns = 1
    /\ pc = "select" /\ ticksStarted = 2 /\ printed = 2

(***************************************************************************)
(* Properties of the start of a run.                                       *)
(***************************************************************************)
\* C28: no probe is issued before the first fire of the interval timer: a
\* tick body starts only on a tick the timer delivered, up to the first one
\* no request is sent, no line is printed and the log sink is not called, and
\* a runCheck that observes the cancellation before its first tick returns
\* nil with zero result lines and zero log lines.
C28_NoProbeBeforeFirstTick ==
    /\ [](ticksStarted = 0 =>
             /\ pc \notin {"do", "readbody"}
             /\ inflight = 0 /\ printed = 0
             /\ logCalls = 0 /\ logLines = 0 /\ logFailures = 0
             /\ ~TickerStarted => ~tickPending
             /\ (pc = "returned" /\ ret = Nil) => doneObserved)
    /\ [][ticksStarted' # ticksStarted
             => (tickPending /\ ~tickPending' /\ ticksStarted' = ticksStarted + 1)]_vars

\* the cancellation was observed at the select before any tick, with a tick
\* waiting in the ticker, and runCheck returned nil
C28_Witness ==
    /\ pc = "returned" /\ ret = Nil /\ doneObserved
    /\ ticksStarted = 0 /\ tickPending /\ printed = 0 /\ logCalls = 0

\* the configuration on which Config.SetupCookies returns an error
SetupFails == ~UrlParses(cfgURL) \/ cfgCookieFile = MissingFile

\* C29: when cookie setup fails, on an unparsable target URL or an unreadable
\* cookie file, runCheck returns the error before the ticker is created: no
\* tick is delivered, no request sent, no result line printed and no log line
\* written, while a configured on-start hook has run; and runCheck returns
\* an error in no other case.
C29_SetupFailureBeforeTicker ==
    /\ SetupFails =>
          /\ pc \in {"main", "exited", "start", "cookies", "returned"}
          /\ ~TickerStarted /\ ~tickPending
          /\ ticksStarted = 0 /\ inflight = 0 /\ printed = 0
          /\ logCalls = 0 /\ logLines = 0
          /\ pc = "returned" =>
                /\ ret = "failed to setup cookies"
                /\ cfgHook # Nil => hookRuns = 1
    /\ (pc = "returned" /\ ret # Nil) => SetupFails

\* the cookie file did not open, after the hook had run
C29_Witness ==
    /\ cfgCookieFile = MissingFile /\ UrlParses(cfgURL)
    /\ pc = "returned" /\ ret = "failed to setup cookies"
    /\ hookRuns = 1 /\ printed = 0

\* the target URL did not parse
C29_WitnessURL ==
    /\ ~UrlParses(cfgURL)
    /\ pc = "returned" /\ ret = "failed to setup cookies"

(***************************************************************************)
(* Liveness of the cancellation.                                           *)
(***************************************************************************)
\* C26 as stated: once a cancellation signal is pending on the done channel,
\* runCheck eventually returns nil.
C26_PendingCancellationReturnsNil ==
    (cfgDone /\ donePending) ~> (pc = "returned" /\ ret = Nil)

\* C26: once runCheck is in its loop and a cancellation signal is pending on
\* its done channel, runCheck eventually returns nil, given that every
\* request ends and that the select is fair to the done case; the loop
\* cannot go on choosing ticks forever while the signal waits.
C26_CancellationInLoopReturnsNil ==
    (cfgDone /\ donePending /\ TickerStarted) ~> (pc = "returned" /\ ret = Nil)

\* the signal arrived while the body of a response was being read, and
\* runCheck returned nil at a later select
C26_Witness ==
    /\ cfgDone /\ cancelAt = "readbody"
    /\ pc = "returned" /\ ret = Nil /\ doneObserved /\ ~donePending

(***************************************************************************)
(* Precedence of the classifier.                                           *)
(***************************************************************************)
\* the categories in the order of the claim, each with what the message holds
Precedence ==
    << [matches |-> HasDNS,     code |-> StatusDNSLookupFailed],
       [matches |-> HasRefused, code |-> StatusConnectionFailed],
       [matches |-> HasTimeout, code |-> StatusTimeout],
       [matches |-> HasStopped, code |-> StatusRedirectLoop] >>

Matching == { i \in DOMAIN Precedence : Precedence[i].matches }

\* C27: the classifier gives a message the code of the earliest category, in
\* the order "no such host", "connection refused", "timeout" or "deadline
\* exceeded", "stopped after" with "redirects", whose text it holds, and the
\* unknown code when it holds none; the result is this function of the
\* message text.
C27_EarliestCategoryWins ==
    (classified # <<>> /\ errIn # NilErr) =>
        IF Matching = {}
           THEN classified[1] = StatusUnknown
           ELSE \E i \in Matching :
                   /\ \A j \in Matching : i <= j
                   /\ classified[1] = Precedence[i].code

\* a message of three categories, the latest of them first in the text, got
\* the code of the earliest
C27_Witness ==
    /\ HasDNS /\ HasRefused /\ HasTimeout
    /\ Head(errIn) = "t"
    /\ classified = <<StatusDNSLookupFailed>>

(***************************************************************************)
(* Properties of the cookie file.                                          *)
(***************************************************************************)
\* the data lines of the file, in file order
DataLines == SelectSeq(ckLines, IsDataLine)

\* C25: the loader returns one cookie for each data line of the file, in
\* file order, with the sixth field of the line as its name and the seventh
\* as its value; comment lines, blank lines and lines of fewer than seven
\* fields give no cookie and no error, so a file of such lines alone gives
\* zero cookies.
C25_OneCookiePerDataLine ==
    ckLoaded # <<>> =>
        /\ Len(ckLoaded[1]) = Len(DataLines)
        /\ \A k \in 1..Len(DataLines) :
               /\ ckLoaded[1][k].Name = Words(DataLines[k])[6]
               /\ ckLoaded[1][k].Value = Words(DataLines[k])[7]
        /\ (\A i \in 1..Len(ckLines) :
                \/ IsComment(ckLines[i])
                \/ Words(ckLines[i]) = <<>>
                \/ Len(Words(ckLines[i])) < 7) => ckLoaded[1] = <<>>

\* two data lines around nothing else gave two cookies in file order: the
\* second from a line written with spaces
C25_Witness ==
    /\ ckLines = <<DataLine("session", "file1"), SpacedLine("user", "file2")>>
    /\ ckLoaded = << <<[Name |-> "session", Value |-> "file1"],
                       [Name |-> "user", Value |-> "file2"]>> >>

\* a commented-out data line and a line of six fields gave no cookie
C25_WitnessNone ==
    /\ ckLines = <<CommentLine, ShortLine>>
    /\ ckLoaded = << <<>> >>

Seconds(text) ==
    CASE text = <<"2", "s">> -> 2
      [] text = <<"5", "s">> -> 5
      [] text = <<"1", "0", "s">> -> 10
      [] text = <<"1", "m">> -> 60

UrlSupplied == cfYaml.url # Absent /\ cfYaml.url[1] # <<>>

C24_WitnessEmptyURL ==
    /\ entry = "file" /\ cfYaml.url = <<EmptyURL>> /\ cfYaml.interval # Absent
    /\ cfOut # <<>> /\ cfOut[1].err # Nil /\ cfOut[1].config = <<>>

\* the status matches the pattern of a file that sets one
MatchesPattern(status) == cfYaml.regex = Absent \/ status \in 200..299

\* C30: a file that sets a status pattern and no status values leaves the
\* default set {200} in force beside the pattern: a response is accepted
\* only if its status is 200 and matches the pattern; the values of a file
\* that supplies them take the place of the default set.
C30_DefaultValuesBesidePattern ==
    (cfVerdict # <<>> /\ entry = "file") =>
        LET config == cfOut[1].config[1]
            status == cfVerdict[1].status
            accepted == cfVerdict[1].err = Nil
        IN  IF cfYaml.values = Absent
               THEN /\ config.Values = {200}
                    /\ accepted <=> (status = 200 /\ MatchesPattern(status))
               ELSE /\ config.Values = cfYaml.values[1]
                    /\ accepted <=> (status \in cfYaml.values[1] /\ MatchesPattern(status))

\* a 201 that matches the pattern of the file was rejected by the default set
C30_Witness ==
    /\ entry = "file" /\ cfYaml.values = Absent /\ cfYaml.regex = <<YamlStatusRegex>>
    /\ cfVerdict # <<>>
    /\ cfVerdict[1].status = 201
    /\ cfVerdict[1].err = "status code not in expected values"

====
